---- MODULE Spec2Model ----
(***************************************************************************)
(* Prime-factorisation virtual machine (UOR): chunk codec, decoder,        *)
(* segmented memory, stack interpreter and hot-path JIT.                   *)
(*                                                                         *)
(* A chunk is a positive integer.  Wire values such as                     *)
(* 2^4 * 59^5 * 293^6 do not fit a machine integer, so a chunk is          *)
(* represented by its multiset of prime factors (a bag prime -> exponent). *)
(* Multiplication is bag sum, p ** e is the bag {p -> e}; two primes that  *)
(* coincide merge their exponents exactly as the integer product does.     *)
(***************************************************************************)
EXTENDS Integers, Sequences, FiniteSets, Bags, TLC

(***************************************************************************)
(* Prime service (src/primes.py), on a table that holds every prime at its *)
(* own index.                                                              *)
(***************************************************************************)
PRIMES ==
  << 
     2, 3, 5, 7, 11, 13, 17, 19, 23, 29, 31, 37, 41, 43, 47, 53,
     59, 61, 67, 71, 73, 79, 83, 89, 97, 101, 103, 107, 109, 113, 127, 131,
     137, 139, 149, 151, 157, 163, 167, 173, 179, 181, 191, 193, 197, 199, 211, 223,
     227, 229, 233, 239, 241, 251, 257, 263, 269, 271, 277, 281, 283, 293, 307, 311,
     313, 317, 331, 337, 347, 349, 353, 359, 367, 373, 379, 383, 389, 397, 401, 409,
     419, 421, 431, 433, 439, 443, 449, 457, 461, 463, 467, 479, 487, 491, 499, 503,
     509, 521, 523, 541, 547, 557, 563, 569, 571, 577, 587, 593, 599, 601, 607, 613,
     617, 619, 631, 641, 643, 647, 653, 659, 661, 673, 677, 683, 691, 701, 709, 719,
     727, 733, 739, 743, 751, 757, 761, 769, 773, 787, 797, 809, 811, 821, 823, 827,
     829, 839, 853, 857, 859, 863, 877, 881, 883, 887, 907, 911, 919, 929, 937, 941,
     947, 953, 967, 971, 977, 983, 991, 997, 1009, 1013, 1019, 1021, 1031, 1033, 1039, 1049,
     1051, 1061, 1063, 1069, 1087, 1091, 1093, 1097, 1103, 1109, 1117, 1123, 1129, 1151, 1153, 1163,
     1171, 1181, 1187, 1193, 1201, 1213, 1217, 1223, 1229, 1231, 1237, 1249, 1259, 1277, 1279, 1283,
     1289, 1291, 1297, 1301, 1303, 1307, 1319, 1321, 1327, 1361, 1367, 1373, 1381, 1399, 1409, 1423,
     1427, 1429, 1433, 1439, 1447, 1451, 1453, 1459, 1471, 1481, 1483, 1487, 1489, 1493, 1499, 1511,
     1523, 1531, 1543, 1549, 1553, 1559, 1567, 1571, 1579, 1583, 1597, 1601, 1607, 1609, 1613, 1619,
     1621, 1627, 1637, 1657, 1663, 1667, 1669, 1693, 1697, 1699, 1709, 1721, 1723, 1733, 1741, 1747,
     1753, 1759, 1777, 1783, 1787, 1789, 1801, 1811, 1823, 1831, 1847, 1861, 1867, 1871, 1873, 1877,
     1879, 1889, 1901, 1907, 1913, 1931, 1933, 1949, 1951, 1973, 1979, 1987, 1993, 1997, 1999, 2003,
     2011, 2017, 2027, 2029, 2039, 2053, 2063, 2069, 2081, 2083, 2087, 2089, 2099, 2111, 2113, 2129,
     2131, 2137, 2141, 2143, 2153, 2161, 2179, 2203, 2207, 2213, 2221, 2237, 2239, 2243, 2251, 2267,
     2269, 2273, 2281, 2287, 2293, 2297, 2309, 2311, 2333, 2339, 2341, 2347, 2351, 2357, 2371, 2377,
     2381, 2383, 2389, 2393, 2399, 2411, 2417, 2423, 2437, 2441, 2447, 2459, 2467, 2473, 2477, 2503,
     2521, 2531, 2539, 2543, 2549, 2551, 2557, 2579, 2591, 2593, 2609, 2617, 2621, 2633, 2647, 2657,
     2659, 2663, 2671, 2677, 2683, 2687, 2689, 2693, 2699, 2707, 2711, 2713, 2719, 2729, 2731, 2741,
     2749, 2753, 2767, 2777, 2789, 2791, 2797, 2801, 2803, 2819, 2833, 2837, 2843, 2851, 2857, 2861,
     2879, 2887, 2897, 2903, 2909, 2917, 2927, 2939, 2953, 2957, 2963, 2969, 2971, 2999, 3001, 3011,
     3019, 3023, 3037, 3041, 3049, 3061, 3067, 3079, 3083, 3089, 3109, 3119, 3121, 3137, 3163, 3167,
     3169, 3181, 3187, 3191, 3203, 3209, 3217, 3221, 3229, 3251, 3253, 3257, 3259, 3271, 3299, 3301,
     3307, 3313, 3319, 3323, 3329, 3331, 3343, 3347, 3359, 3361, 3371, 3373, 3389, 3391, 3407, 3413,
     3433, 3449, 3457, 3461, 3463, 3467, 3469, 3491, 3499, 3511, 3517, 3527, 3529, 3533, 3539, 3541,
     3547, 3557, 3559, 3571, 3581, 3583, 3593, 3607, 3613, 3617, 3623, 3631, 3637, 3643, 3659, 3671
  >>

NumPrimes == Len(PRIMES)

\* primes.get_prime: the idx-th prime, index 0 -> 2.
get_prime(idx) == PRIMES[idx + 1]

\* primes._PRIME_IDX: the reverse map prime -> index.
PRIME_IDX == [p \in {PRIMES[i] : i \in 1..NumPrimes} |->
                 (CHOOSE i \in 1..NumPrimes : PRIMES[i] = p) - 1]

\* Python's ^ on non-negative integers.
RECURSIVE BitXor(_, _)
BitXor(a, b) ==
  IF a = 0 THEN b
  ELSE IF b = 0 THEN a
  ELSE (((a % 2) + (b % 2)) % 2) + (2 * BitXor(a \div 2, b \div 2))

\* p ** e as a chunk value.
Pow(p, e) == [x \in {p} |-> e]

SetMin(S) == CHOOSE x \in S : \A y \in S : x <= y

\* primes.factor: the (prime, exponent) pairs of x, primes ascending.
RECURSIVE factor(_)
factor(x) ==
  IF DOMAIN x = {} THEN << >>
  ELSE LET p == SetMin(DOMAIN x)
       IN  << <<p, x[p]>> >> \o factor([q \in (DOMAIN x) \ {p} |-> x[q]])

(***************************************************************************)
(* Opcode primes (src/chunks.py).                                          *)
(***************************************************************************)
opcode ==
  [OP_PUSH |-> PRIMES[1],
   OP_ADD |-> PRIMES[2],
   OP_PRINT |-> PRIMES[3],
   OP_SUB |-> PRIMES[7],
   OP_MUL |-> PRIMES[8],
   OP_LOAD |-> PRIMES[9],
   OP_STORE |-> PRIMES[10],
   OP_JMP |-> PRIMES[11],
   OP_JZ |-> PRIMES[12],
   OP_JNZ |-> PRIMES[13],
   OP_CALL |-> PRIMES[15],
   OP_RET |-> PRIMES[16],
   OP_ALLOC |-> PRIMES[17],
   OP_FREE |-> PRIMES[18],
   OP_INPUT |-> PRIMES[19],
   OP_OUTPUT |-> PRIMES[20],
   OP_NET_SEND |-> PRIMES[21],
   OP_NET_RECV |-> PRIMES[22],
   OP_THREAD_START |-> PRIMES[23],
   OP_THREAD_JOIN |-> PRIMES[24],
   OP_CHECKPOINT |-> PRIMES[25],
   OP_UN_CREATE |-> PRIMES[26],
   OP_UN_GRADE |-> PRIMES[27],
   OP_UN_INNER |-> PRIMES[28],
   OP_UN_NORM |-> PRIMES[29],
   OP_UN_TRANS |-> PRIMES[30],
   OP_UN_DWT |-> PRIMES[31],
   OP_DIV |-> PRIMES[32],
   OP_MOD |-> PRIMES[33],
   OP_AND |-> PRIMES[34],
   OP_OR |-> PRIMES[35],
   OP_XOR |-> PRIMES[36],
   OP_SHL |-> PRIMES[37],
   OP_SHR |-> PRIMES[38],
   OP_NEG |-> PRIMES[39],
   OP_FMUL |-> PRIMES[40],
   OP_FDIV |-> PRIMES[41],
   OP_F2I |-> PRIMES[42],
   OP_I2F |-> PRIMES[43],
   OP_SYSCALL |-> PRIMES[44],
   OP_INT |-> PRIMES[45],
   OP_HALT |-> PRIMES[46],
   OP_NOP |-> PRIMES[47],
   OP_HASH |-> PRIMES[48],
   OP_SIGN |-> PRIMES[49],
   OP_VERIFY |-> PRIMES[50],
   OP_RNG |-> PRIMES[51],
   OP_BRK |-> PRIMES[52],
   OP_TRACE |-> PRIMES[53]]
BLOCK_TAG == PRIMES[4]
NTT_TAG == PRIMES[5]
T_MOD == PRIMES[6]
NEG_FLAG == PRIMES[14]
\* Opcodes that vm.py dispatches on but chunks.py does not define; their
\* primes are taken to be the next entries of the table.
vm_opcode ==
  [OP_DEBUG |-> PRIMES[54],
   OP_ATOMIC |-> PRIMES[55],
   OP_NOT |-> PRIMES[56],
   OP_GT |-> PRIMES[57],
   OP_LT |-> PRIMES[58],
   OP_EQ |-> PRIMES[59],
   OP_NEQ |-> PRIMES[60],
   OP_GTE |-> PRIMES[61],
   OP_LTE |-> PRIMES[62],
   OP_DUP |-> PRIMES[63],
   OP_SWAP |-> PRIMES[64],
   OP_ROT |-> PRIMES[65],
   OP_DROP |-> PRIMES[66],
   OP_OVER |-> PRIMES[67],
   OP_PICK |-> PRIMES[68]]
NTT_ROOT == 2

(***************************************************************************)
(* Chunk encoders (src/chunks.py).                                         *)
(***************************************************************************)
\* XOR over a payload list of prime_index * exponent.
RECURSIVE XorFac(_)
XorFac(fac) ==
  IF fac = << >> THEN 0
  ELSE BitXor(PRIME_IDX[fac[1][1]] * fac[1][2], XorFac(Tail(fac)))

attach_checksum(raw, fac) == raw (+) Pow(get_prime(XorFac(fac)), 6)

chunk_data(pos, cp) ==
  LET p1 == get_prime(pos)
      p2 == get_prime(cp)
  IN  IF p1 = p2
      THEN attach_checksum(Pow(p1, 3), << <<p1, 3>> >>)
      ELSE attach_checksum(Pow(p1, 1) (+) Pow(p2, 2), << <<p1, 1>>, <<p2, 2>> >>)

\* chunk_add, chunk_sub, ... : a bare opcode.
chunk_bare(op) == attach_checksum(Pow(op, 4), << <<op, 4>> >>)

\* chunk_push, chunk_load, chunk_store, chunk_alloc, chunk_free.
chunk_operand(op, v) ==
  LET p == get_prime(v)
  IN  attach_checksum(Pow(op, 4) (+) Pow(p, 5), << <<op, 4>>, <<p, 5>> >>)

chunk_push(v) == chunk_operand(opcode.OP_PUSH, v)
chunk_load(addr) == chunk_operand(opcode.OP_LOAD, addr)
chunk_store(addr) == chunk_operand(opcode.OP_STORE, addr)
chunk_alloc(size) == chunk_operand(opcode.OP_ALLOC, size)
chunk_free(addr) == chunk_operand(opcode.OP_FREE, addr)

\* chunk_jmp, chunk_jz, chunk_jnz, chunk_call: a signed offset.
chunk_signed(op, offset) ==
  LET sign == IF offset < 0 THEN -1 ELSE 1
      mag == IF offset < 0 THEN -offset ELSE offset
      p == get_prime(mag)
      fac == << <<op, 4>>, <<p, 5>> >>
      raw == Pow(op, 4) (+) Pow(p, 5)
  IN  IF sign < 0
      THEN attach_checksum(raw (+) Pow(NEG_FLAG, 5), Append(fac, <<NEG_FLAG, 5>>))
      ELSE attach_checksum(raw, fac)

chunk_jmp(offset) == chunk_signed(opcode.OP_JMP, offset)
chunk_jz(offset) == chunk_signed(opcode.OP_JZ, offset)
chunk_jnz(offset) == chunk_signed(opcode.OP_JNZ, offset)
chunk_call(offset) == chunk_signed(opcode.OP_CALL, offset)

chunk_block_start(n) ==
  LET lp == get_prime(n)
  IN  attach_checksum(Pow(BLOCK_TAG, 7) (+) Pow(lp, 5),
                      << <<BLOCK_TAG, 7>>, <<lp, 5>> >>)

chunk_ntt(n) ==
  LET lp == get_prime(n)
  IN  attach_checksum(Pow(NTT_TAG, 4) (+) Pow(lp, 5),
                      << <<NTT_TAG, 4>>, <<lp, 5>> >>)

(***************************************************************************)
(* Decoder (src/decoder.py).                                               *)
(***************************************************************************)
NoPrime == 0

\* DecodedInstruction; inner is << >> for a flat instruction.
DecodedInstruction(data, inner) == [data |-> data, inner |-> inner]

\* The peeling loop of _decode_single over the factor list.
RECURSIVE PeelLoop(_, _, _, _)
PeelLoop(fac, i, chk, data) ==
  IF i > Len(fac) THEN [err |-> "none", chk |-> chk, data |-> data]
  ELSE LET p == fac[i][1]
           e == fac[i][2]
       IN  IF e >= 6 /\ chk = NoPrime
           THEN PeelLoop(fac, i + 1, p,
                         IF e - 6 # 0 THEN Append(data, <<p, e - 6>>) ELSE data)
           ELSE IF e >= 6
           THEN IF p = BLOCK_TAG /\ e = 7
                THEN PeelLoop(fac, i + 1, chk, Append(data, <<p, e>>))
                ELSE [err |-> "Duplicate checksum", chk |-> chk, data |-> data]
           ELSE PeelLoop(fac, i + 1, chk, Append(data, <<p, e>>))

\* decoder._decode_single on an instruction-cache miss.
decode_single(chunk) ==
  LET peeled == PeelLoop(factor(chunk), 1, NoPrime, << >>)
  IN  IF peeled.err # "none" THEN [err |-> peeled.err, data |-> << >>]
      ELSE IF peeled.chk = NoPrime THEN [err |-> "Checksum missing", data |-> << >>]
      ELSE IF peeled.chk # get_prime(XorFac(peeled.data))
           THEN [err |-> "Checksum mismatch", data |-> << >>]
      ELSE [err |-> "none", data |-> peeled.data]

HasPair(data, p, e) == \E k \in 1..Len(data) : data[k] = <<p, e>>

\* next(p for p, e in data if p != tag and e == 5); NoPrime when exhausted.
LengthPrime(data, tag) ==
  LET S == {k \in 1..Len(data) : data[k][1] # tag /\ data[k][2] = 5}
  IN  IF S = {} THEN NoPrime ELSE data[SetMin(S)][1]

\* chunks[a : b] with Python's clipping, for 0-based a <= b.
Slice(s, a, b) ==
  LET hi == IF b > Len(s) THEN Len(s) ELSE b
  IN  IF a >= hi THEN << >> ELSE SubSeq(s, a + 1, hi)

\* decoder.decode: ip is the 0-based index of the next chunk.
RECURSIVE DecodeLoop(_, _, _)
DecodeLoop(chunks, ip, result) ==
  IF ip >= Len(chunks) THEN [err |-> "none", result |-> result]
  ELSE
    LET one == decode_single(chunks[ip + 1])
        data == one.data
        isBlock == HasPair(data, BLOCK_TAG, 7)
        isNtt == HasPair(data, NTT_TAG, 4)
        lp == IF isBlock THEN LengthPrime(data, BLOCK_TAG)
              ELSE LengthPrime(data, NTT_TAG)
    IN  IF one.err # "none" THEN [err |-> one.err, result |-> << >>]
        ELSE IF isBlock \/ isNtt
        THEN IF lp = NoPrime THEN [err |-> "StopIteration", result |-> << >>]
             ELSE LET cnt == PRIME_IDX[lp]
                      sub == DecodeLoop(Slice(chunks, ip + 1, ip + 1 + cnt), 0, << >>)
                  IN  IF sub.err # "none" THEN [err |-> sub.err, result |-> << >>]
                      ELSE DecodeLoop(chunks, ip + 1 + cnt,
                                      Append(result, DecodedInstruction(data, sub.result)))
        ELSE DecodeLoop(chunks, ip + 1,
                        Append(result, DecodedInstruction(data, << >>)))

decode(chunks) == DecodeLoop(chunks, 0, << >>)

\* DecoderUniversalTest._encode: the product of the payload times the
\* checksum prime to the sixth.
RECURSIVE PayloadProduct(_)
PayloadProduct(data) ==
  IF data = << >> THEN EmptyBag
  ELSE Pow(data[1][1], data[1][2]) (+) PayloadProduct(Tail(data))

reencode(data) == PayloadProduct(data) (+) Pow(get_prime(XorFac(data)), 6)

(***************************************************************************)
(* Values.  A Python int n is I(n); a float is the rational it denotes,    *)
(* [k |-> "float", n |-> numerator, d |-> denominator] in lowest terms.    *)
(***************************************************************************)
I(n) == [k |-> "int", n |-> n, d |-> 1]

Abs(n) == IF n < 0 THEN -n ELSE n

RECURSIVE Gcd(_, _)
Gcd(a, b) == IF b = 0 THEN a ELSE Gcd(b, a % b)

\* float(a) / float(b) for b # 0.
Flt(num, den) ==
  LET g == Gcd(Abs(num), Abs(den))
      s == IF den < 0 THEN -1 ELSE 1
  IN  [k |-> "float", n |-> (s * num) \div g, d |-> (s * den) \div g]

IsInt(v) == v.k = "int"
IsFloat(v) == v.k = "float"
IsZero(v) == v.n = 0

\* Python's // and % on integers, b # 0.
FloorDiv(a, b) == IF b > 0 THEN a \div b ELSE (-a) \div (-b)
PyMod(a, b) == a - b * FloorDiv(a, b)

\* int(x) for a float: truncation toward zero.
Trunc(v) == IF v.n >= 0 THEN v.n \div v.d ELSE -((-v.n) \div v.d)

\* Python's &, |, ^ on integers of either sign (two's complement).
RECURSIVE BitAnd(_, _)
BitAnd(a, b) ==
  IF a = 0 \/ b = 0 THEN 0
  ELSE IF a = -1 THEN b
  ELSE IF b = -1 THEN a
  ELSE ((a % 2) * (b % 2)) + (2 * BitAnd(a \div 2, b \div 2))

BitNot(a) == -a - 1
BitOr(a, b) == BitNot(BitAnd(BitNot(a), BitNot(b)))
BitXorZ(a, b) == BitAnd(BitOr(a, b), BitNot(BitAnd(a, b)))

RECURSIVE Pow2(_)
Pow2(n) == IF n = 0 THEN 1 ELSE 2 * Pow2(n - 1)

(***************************************************************************)
(* Segmented memory (src/uor/memory.py).  The segment sizes are the        *)
(* constructor's code_size, data_size, heap_size and stack_size; the       *)
(* source defaults are 0x1000 each with PAGE_SIZE 256.                     *)
(***************************************************************************)
CODE_SIZE == 2
DATA_SIZE == 2
HEAP_SIZE == 6
STACK_SIZE == 3
PAGE_SIZE == 2

CODE_START == -CODE_SIZE
DATA_START == 0
HEAP_START == DATA_START + DATA_SIZE
STACK_START == HEAP_START + HEAP_SIZE
MMIO_IN == STACK_START + STACK_SIZE
MMIO_OUT == MMIO_IN + 1

\* SegmentedMemory._segment
segment(addr) ==
  IF CODE_START <= addr /\ addr < CODE_START + CODE_SIZE THEN "CODE"
  ELSE IF DATA_START <= addr /\ addr < HEAP_START THEN "DATA"
  ELSE IF HEAP_START <= addr /\ addr < STACK_START THEN "HEAP"
  ELSE IF STACK_START <= addr /\ addr < STACK_START + STACK_SIZE THEN "STACK"
  ELSE IF addr = MMIO_IN THEN "MMIO_IN"
  ELSE IF addr = MMIO_OUT THEN "MMIO_OUT"
  ELSE "none"

\* Permissions that let MMIO-in be written and MMIO-out be read.
permissions_mmio_open ==
  [CODE |-> [read |-> TRUE, write |-> FALSE, execute |-> TRUE],
   DATA |-> [read |-> TRUE, write |-> TRUE, execute |-> FALSE],
   HEAP |-> [read |-> TRUE, write |-> TRUE, execute |-> FALSE],
   STACK |-> [read |-> TRUE, write |-> TRUE, execute |-> FALSE],
   MMIO_IN |-> [read |-> TRUE, write |-> TRUE, execute |-> FALSE],
   MMIO_OUT |-> [read |-> TRUE, write |-> TRUE, execute |-> FALSE]]

\* Permissions that let the code segment be written.
permissions_code_writable ==
  [CODE |-> [read |-> TRUE, write |-> TRUE, execute |-> TRUE],
   DATA |-> [read |-> TRUE, write |-> TRUE, execute |-> FALSE],
   HEAP |-> [read |-> TRUE, write |-> TRUE, execute |-> FALSE],
   STACK |-> [read |-> TRUE, write |-> TRUE, execute |-> FALSE],
   MMIO_IN |-> [read |-> TRUE, write |-> FALSE, execute |-> FALSE],
   MMIO_OUT |-> [read |-> FALSE, write |-> TRUE, execute |-> FALSE]]

\* SegmentedMemory.permissions
permissions ==
  [CODE |-> [read |-> TRUE, write |-> FALSE, execute |-> TRUE],
   DATA |-> [read |-> TRUE, write |-> TRUE, execute |-> FALSE],
   HEAP |-> [read |-> TRUE, write |-> TRUE, execute |-> FALSE],
   STACK |-> [read |-> TRUE, write |-> TRUE, execute |-> FALSE],
   MMIO_IN |-> [read |-> TRUE, write |-> FALSE, execute |-> FALSE],
   MMIO_OUT |-> [read |-> FALSE, write |-> TRUE, execute |-> FALSE]]

\* SegmentedMemory._page_for
page_for(addr) == (addr - HEAP_START) \div PAGE_SIZE

SeqToSet(s) == {s[k] : k \in 1..Len(s)}

\* SegmentedMemory._alloc_for_addr: the start of the first allocation, in
\* insertion order, that the address is attributed to; -1 for None.
NoAlloc == -1
alloc_for_addr(allocations, addr) ==
  LET hit(info) ==
        \/ info.start <= addr /\ addr < info.start + info.size
        \/ \E i \in SeqToSet(info.pages) : page_for(info.start) + i = page_for(addr)
      S == {k \in 1..Len(allocations) : hit(allocations[k])}
  IN  IF S = {} THEN NoAlloc ELSE allocations[SetMin(S)].start

\* The machine: a VM (src/vm.py) together with the SegmentedMemory it owns.
\* cells is the union of the DATA, HEAP and STACK dictionaries, which are
\* keyed by disjoint address ranges; allocations lists _allocations in
\* insertion order.
\* tracker says whether call_stack_tracker holds a CallStackTracker, frames
\* is the frame list of that tracker.  debugger holds the attributes a
\* DebugVM (src/uor/debug.py) adds; on says that the machine is a DebugVM.
NoDebugger ==
  [on |-> FALSE, breakpoints |-> {}, watchpoints |-> << >>, tracing |-> FALSE,
   step_mode |-> FALSE]

NoError == [kind |-> "none", ip |-> 0, has_ip |-> FALSE]

NewVM ==
  [stack |-> << >>, call_stack |-> << >>, ip |-> 0,
   io_in |-> << >>, io_out |-> << >>, atomic |-> FALSE,
   counter |-> << >>, compiled |-> {}, executed_instructions |-> 0,
   cells |-> << >>, free_pages |-> 0..((HEAP_SIZE \div PAGE_SIZE) - 1),
   allocations |-> << >>, code |-> << >>,
   tracker |-> FALSE, frames |-> << >>, debugger |-> NoDebugger,
   out |-> << >>, status |-> "new", err |-> NoError]

\* A load that misses what was stored and reads the default.
CellGet_Default(m, addr) == I(0)

\* self.segments[seg].get(addr, 0)
CellGet(m, addr) == IF addr \in DOMAIN m.cells THEN m.cells[addr] ELSE I(0)

CellSet(cells, addr, v) ==
  [a \in (DOMAIN cells) \cup {addr} |-> IF a = addr THEN v ELSE cells[a]]

CellsDrop(cells, S) == [a \in (DOMAIN cells) \ S |-> cells[a]]

\* SegmentedMemory.load: [m, err, val]; err is the MemoryError message.
load(m, addr) ==
  LET seg == segment(addr)
  IN  IF seg = "none" THEN [m |-> m, err |-> "Address out of range", val |-> I(0)]
      ELSE IF ~permissions[seg].read
      THEN IF seg = "MMIO_OUT"
           THEN [m |-> m, err |-> "Cannot load from MMIO address", val |-> I(0)]
           ELSE [m |-> m, err |-> "Read permission denied", val |-> I(0)]
      ELSE IF seg = "CODE"
      THEN LET idx == addr - CODE_START
           IN  IF 0 <= idx /\ idx < Len(m.code)
               THEN [m |-> m, err |-> "", val |-> m.code[idx + 1]]
               ELSE [m |-> m, err |-> "Code address out of range", val |-> I(0)]
      ELSE IF seg = "MMIO_IN"
      THEN IF m.io_in # << >>
           THEN [m |-> [m EXCEPT !.io_in = Tail(@)], err |-> "", val |-> Head(m.io_in)]
           ELSE [m |-> m, err |-> "", val |-> I(0)]
      ELSE [m |-> m, err |-> "", val |-> CellGet(m, addr)]

\* SegmentedMemory.store: [m, err].
store(m, addr, value) ==
  LET seg == segment(addr)
  IN  IF seg = "none" THEN [m |-> m, err |-> "Address out of range"]
      ELSE IF ~permissions[seg].write
      THEN IF seg = "CODE" THEN [m |-> m, err |-> "Cannot write to code segment"]
           ELSE IF seg = "MMIO_IN" THEN [m |-> m, err |-> "Cannot store to MMIO_IN"]
           ELSE [m |-> m, err |-> "Write permission denied"]
      ELSE IF seg = "MMIO_OUT"
      THEN [m |-> [m EXCEPT !.io_out = Append(@, value)], err |-> ""]
      ELSE [m |-> [m EXCEPT !.cells = CellSet(@, addr, value)], err |-> ""]

\* A free that forgets the allocation and keeps its pages out of the free set.
free_keeps_pages(m, addr) ==
  [m EXCEPT !.allocations = SelectSeq(@, LAMBDA info : info.start # addr)]

\* SegmentedMemory.free
free(m, addr) ==
  LET S == {k \in 1..Len(m.allocations) : m.allocations[k].start = addr}
  IN  IF S = {} THEN m
      ELSE LET k == SetMin(S)
               info == m.allocations[k]
               pgs == SeqToSet(info.pages)
               gone == {HEAP_START + p * PAGE_SIZE + o : p \in pgs, o \in 0..(PAGE_SIZE - 1)}
           IN  [m EXCEPT !.allocations = SubSeq(@, 1, k - 1) \o SubSeq(@, k + 1, Len(@)),
                         !.free_pages = @ \cup pgs,
                         !.cells = CellsDrop(@, gone)]

InHeap(v) == IsInt(v) /\ HEAP_START <= v.n /\ v.n < STACK_START

\* The values of a dictionary of cells, in ascending address order.
RECURSIVE CellValues(_)
CellValues(cells) ==
  IF DOMAIN cells = {} THEN << >>
  ELSE LET a == SetMin(DOMAIN cells)
       IN  <<cells[a]>> \o CellValues(CellsDrop(cells, {a}))

AllocSize(allocations, start) ==
  LET k == CHOOSE j \in 1..Len(allocations) : allocations[j].start = start
  IN  allocations[k].size

\* The mark loop of collect: work is a stack of heap pointers.
RECURSIVE MarkLoop(_, _, _)
MarkLoop(m, work, marked) ==
  IF work = << >> THEN marked
  ELSE LET ptr == work[Len(work)]
           rest == SubSeq(work, 1, Len(work) - 1)
           start == alloc_for_addr(m.allocations, ptr)
       IN  IF start = NoAlloc \/ start \in marked THEN MarkLoop(m, rest, marked)
           ELSE LET marked2 == marked \cup {start}
                    size == AllocSize(m.allocations, start)
                    offs == {o \in 0..(size - 1) :
                               /\ (start + o) \in DOMAIN m.cells
                               /\ InHeap(m.cells[start + o])
                               /\ alloc_for_addr(m.allocations, m.cells[start + o].n)
                                     \notin marked2}
                    RECURSIVE Push(_, _)
                    Push(w, o) ==
                      IF o >= size THEN w
                      ELSE Push(IF o \in offs THEN Append(w, m.cells[start + o].n) ELSE w,
                                o + 1)
                IN  MarkLoop(m, Push(rest, 0), marked2)

RECURSIVE Sweep(_, _, _)
Sweep(m, starts, marked) ==
  IF starts = << >> THEN m
  ELSE Sweep(IF starts[1] \in marked THEN m ELSE free(m, starts[1]),
             Tail(starts), marked)

SelectInHeap(vals) ==
  LET RECURSIVE Sel(_)
      Sel(s) == IF s = << >> THEN << >>
                ELSE IF InHeap(s[1]) THEN <<s[1].n>> \o Sel(Tail(s))
                ELSE Sel(Tail(s))
  IN  Sel(vals)

\* SegmentedMemory.collect(vm)
collect(m) ==
  Sweep(m, [k \in 1..Len(m.allocations) |-> m.allocations[k].start],
        MarkLoop(m, SelectInHeap(m.stack
                                   \o [k \in 1..Len(m.call_stack) |-> I(m.call_stack[k])]
                                   \o CellValues(m.cells)),
                 {}))

RECURSIVE SortSet(_)
SortSet(S) == IF S = {} THEN << >> ELSE <<SetMin(S)>> \o SortSet(S \ {SetMin(S)})

\* _try_allocate once the run of pages is chosen: the pages leave the free
\* set, the allocation is recorded and its byte range is zeroed.
Placed(m, size, run, start) ==
  [m |-> [m EXCEPT !.free_pages = @ \ SeqToSet(run),
                   !.allocations = Append(@, [start |-> start, pages |-> run,
                                              size |-> size]),
                   !.cells = [a \in (DOMAIN @) \cup {start + o : o \in 0..(size - 1)} |->
                                IF a >= start /\ a < start + size THEN I(0) ELSE @[a]]],
   addr |-> start, err |-> ""]

\* The scan of _try_allocate over the sorted free pages for the first run of
\* pages_needed contiguous pages.
FirstFit(m, size, pages_needed, pages) ==
  LET C == {i \in 1..(Len(pages) - pages_needed + 1) :
              \A j \in 0..(pages_needed - 1) : pages[i + j] = pages[i] + j}
  IN  IF pages_needed = 0 THEN [m |-> m, addr |-> NoAlloc, err |-> "IndexError"]
      ELSE IF C = {} THEN [m |-> m, addr |-> NoAlloc, err |-> ""]
      ELSE Placed(m, size, SubSeq(pages, SetMin(C), SetMin(C) + pages_needed - 1),
                  HEAP_START + pages[SetMin(C)] * PAGE_SIZE)

\* SegmentedMemory._try_allocate: [m, addr, err]; addr is NoAlloc for None,
\* err is "IndexError" when run[0] or pages[i] indexes an empty list.
try_allocate(m, size) ==
  FirstFit(m, size, (size + PAGE_SIZE - 1) \div PAGE_SIZE, SortSet(m.free_pages))

\* The second attempt of allocate, after collect: None is "Out of memory".
OrOutOfMemory(second) ==
  IF second.err = "" /\ second.addr = NoAlloc
  THEN [m |-> second.m, addr |-> NoAlloc, err |-> "Out of memory"]
  ELSE second

\* allocate after its first attempt gave first.
Retry(m, size, first) ==
  IF first.err # "" \/ first.addr # NoAlloc THEN first
  ELSE OrOutOfMemory(try_allocate(collect(m), size))

\* SegmentedMemory.allocate: [m, addr, err]; err is "IndexError" or the
\* MemoryError message.
allocate(m, size) == Retry(m, size, try_allocate(m, size))
(***************************************************************************)
(* Interpreter (src/vm.py).                                                *)
(***************************************************************************)
\* Largest magnitude of a value the model follows, and the longest run.
MaxVal == 20
MaxSteps == 8

JIT_THRESHOLD == 1000

\* raise SomeError(message, self.ip - 1) from a handler.
Raise(m, kind) ==
  [m EXCEPT !.status = "error",
            !.err = [kind |-> kind, ip |-> m.ip - 1, has_ip |-> TRUE]]

\* An exception that is not a UORException and carries no ip.
RaisePy(m, kind) ==
  [m EXCEPT !.status = "error",
            !.err = [kind |-> kind, ip |-> 0, has_ip |-> FALSE]]

\* The run leaves the values the model represents.
Capped(m) == [m EXCEPT !.status = "capped"]

\* self.stack.append(v)
Push(m, v) ==
  IF Abs(v.n) > MaxVal THEN Capped(m) ELSE [m EXCEPT !.stack = Append(@, v)]

Yield(m, item) == [m EXCEPT !.out = Append(@, item)]

Top(m) == m.stack[Len(m.stack)]
DropN(m, n) == [m EXCEPT !.stack = SubSeq(@, 1, Len(@) - n)]

Chr(idx) == [k |-> "chr", n |-> idx, d |-> 1]
Str(name) == [k |-> name, n |-> 0, d |-> 1]

\* Numeric comparison of two values: -1, 0 or 1.
Cmp(a, b) ==
  LET l == a.n * b.d
      r == b.n * a.d
  IN  IF l < r THEN -1 ELSE IF l = r THEN 0 ELSE 1

Integral(v) == v.d = 1

\* The result of a Python arithmetic expression on two stack values:
\* res is "ok", the name of the exception it raises, or "cap" when the
\* result is a float the model does not represent exactly.
Ok(v) == [res |-> "ok", v |-> v]
Fail(kind) == [res |-> kind, v |-> I(0)]

\* A quotient with denominator d (in lowest terms) is a binary float exactly
\* when d is a power of two.
RECURSIVE Dyadic(_)
Dyadic(d) == d = 1 \/ (d % 2 = 0 /\ Dyadic(d \div 2))

\* A float result n (integral); a zero whose sign could be negative is
\* not represented.
FloatOf(n, maybeNegZero) ==
  IF n = 0 /\ maybeNegZero THEN Fail("cap") ELSE Ok(Flt(n, 1))

Arith(name, a, b) ==
  LET ints == IsInt(a) /\ IsInt(b)
      exact == Integral(a) /\ Integral(b)
      neg == a.n < 0 \/ b.n < 0
  IN  CASE name = "add" ->
             IF ints THEN Ok(I(a.n + b.n))
             ELSE IF exact THEN FloatOf(a.n + b.n, FALSE) ELSE Fail("cap")
        [] name = "sub" ->
             IF ints THEN Ok(I(a.n - b.n))
             ELSE IF exact THEN FloatOf(a.n - b.n, FALSE) ELSE Fail("cap")
        [] name = "mul" ->
             IF ints THEN Ok(I(a.n * b.n))
             ELSE IF exact THEN FloatOf(a.n * b.n, neg) ELSE Fail("cap")
        [] name = "floordiv" ->
             IF ints THEN Ok(I(FloorDiv(a.n, b.n)))
             ELSE IF exact THEN FloatOf(FloorDiv(a.n, b.n), neg) ELSE Fail("cap")
        [] name = "mod" ->
             IF ints THEN Ok(I(PyMod(a.n, b.n)))
             ELSE IF exact THEN FloatOf(PyMod(a.n, b.n), neg) ELSE Fail("cap")
        [] name = "and" ->
             IF ints THEN Ok(I(BitAnd(a.n, b.n))) ELSE Fail("TypeError")
        [] name = "or" ->
             IF ints THEN Ok(I(BitOr(a.n, b.n))) ELSE Fail("TypeError")
        [] name = "xor" ->
             IF ints THEN Ok(I(BitXorZ(a.n, b.n))) ELSE Fail("TypeError")
        [] name = "shl" ->
             IF ~ints THEN Fail("TypeError")
             ELSE IF b.n < 0 THEN Fail("ValueError")
             ELSE Ok(I(a.n * Pow2(b.n)))
        [] name = "shr" ->
             IF ~ints THEN Fail("TypeError")
             ELSE IF b.n < 0 THEN Fail("ValueError")
             ELSE Ok(I(a.n \div Pow2(b.n)))
        [] name = "fmul" ->
             IF exact THEN FloatOf(a.n * b.n, neg) ELSE Fail("cap")
        [] name = "fdiv" ->
             IF exact /\ ~(a.n = 0 /\ neg) /\ Dyadic(Flt(a.n, b.n).d)
             THEN Ok(Flt(a.n, b.n))
             ELSE Fail("cap")
        [] name = "gt" -> Ok(I(IF Cmp(a, b) > 0 THEN 1 ELSE 0))
        [] name = "lt" -> Ok(I(IF Cmp(a, b) < 0 THEN 1 ELSE 0))
        [] name = "eq" -> Ok(I(IF Cmp(a, b) = 0 THEN 1 ELSE 0))
        [] name = "neq" -> Ok(I(IF Cmp(a, b) # 0 THEN 1 ELSE 0))
        [] name = "gte" -> Ok(I(IF Cmp(a, b) >= 0 THEN 1 ELSE 0))
        [] name = "lte" -> Ok(I(IF Cmp(a, b) <= 0 THEN 1 ELSE 0))

\* Push the result of an expression, or raise what it raised.
Finish(m, r) ==
  IF r.res = "ok" THEN Push(m, r.v)
  ELSE IF r.res = "cap" THEN Capped(m)
  ELSE RaisePy(m, r.res)

\* VM._binary_op and the handlers built like it: a, b = self._pop_two();
\* self.stack.append(func(a, b)).
binary_op(m, name) ==
  IF Len(m.stack) < 2 THEN Raise(m, "StackUnderflow")
  ELSE Finish(DropN(m, 2), Arith(name, m.stack[Len(m.stack) - 1], Top(m)))

\* VM._op_div, VM._op_mod, VM._op_fdiv: the divisor is checked first.
division_op(m, name) ==
  IF Len(m.stack) < 2 THEN Raise(m, "StackUnderflow")
  ELSE IF IsZero(Top(m)) THEN Raise(DropN(m, 2), "DivisionByZero")
  ELSE Finish(DropN(m, 2), Arith(name, m.stack[Len(m.stack) - 1], Top(m)))

\* Handlers of the shape v = self._pop(); self.stack.append(f(v)).
unary_op(m, name) ==
  IF m.stack = << >> THEN Raise(m, "StackUnderflow")
  ELSE LET v == Top(m)
           m1 == DropN(m, 1)
       IN  CASE name = "neg" ->
                  IF IsFloat(v) /\ v.n = 0 THEN Capped(m1)
                  ELSE Push(m1, [v EXCEPT !.n = -@])
             [] name = "not" ->
                  IF IsInt(v) THEN Push(m1, I(BitNot(v.n))) ELSE RaisePy(m1, "TypeError")
             [] name = "f2i" -> Push(m1, I(Trunc(v)))
             [] name = "i2f" -> Push(m1, [v EXCEPT !.k = "float"])
             [] name = "sign" ->
                  IF Integral(v) THEN Push(m1, [v EXCEPT !.n = @ + 1]) ELSE Capped(m1)
             [] name = "hash" -> Capped(m1)

\* next(p for p, e in data if e == 5 [and p != NEG_FLAG]); NoPrime when
\* the generator is exhausted (StopIteration).
Operand(data, skipNeg) ==
  LET S == {k \in 1..Len(data) :
              data[k][2] = 5 /\ (skipNeg => data[k][1] # NEG_FLAG)}
  IN  IF S = {} THEN NoPrime ELSE data[SetMin(S)][1]

\* The signed displacement of JMP, JZ, JNZ and CALL.
Displacement(data) ==
  LET sign == IF HasPair(data, NEG_FLAG, 5) THEN -1 ELSE 1
  IN  sign * PRIME_IDX[Operand(data, TRUE)]

\* StopIteration raised inside the execute generator surfaces as RuntimeError.
StopIteration(m) == RaisePy(m, "RuntimeError")

op_push(m, data) ==
  LET v == Operand(data, FALSE)
  IN  IF v = NoPrime THEN StopIteration(m)
      ELSE LET m1 == Push(m, I(PRIME_IDX[v]))
           IN  IF m1.status = "running" /\ Len(m1.stack) > STACK_SIZE
               THEN Raise(m1, "StackOverflow")
               ELSE m1

\* The strings a DebugVM yields: "BREAK:n", "TRACE:n", "WATCH:n:read" and
\* "WATCH:n:write".
Tag(name, n) == [k |-> name, n |-> n, d |-> 1]

\* A watchpoint check that reports nothing comes first, then
\* DebugVM._op_load and DebugVM._op_store up to the call of the handler of
\* VM: the watchpoint of the address is reported when its mode holds the
\* letter.  A VM has no watchpoints.
Watched_silent(m, addr, letter, name) == m

Watched(m, addr, letter, name) ==
  IF addr \in DOMAIN m.debugger.watchpoints /\ letter \in m.debugger.watchpoints[addr]
  THEN Yield(m, Tag(name, addr))
  ELSE m

vm_op_load(m, data) ==
  LET p == Operand(data, FALSE)
  IN  IF p = NoPrime THEN StopIteration(m)
      ELSE LET r == load(m, PRIME_IDX[p])
           IN  IF r.err # "" THEN Raise(m, "MemoryAccess")
               ELSE Push(r.m, r.val)

op_load(m, data) ==
  IF Operand(data, FALSE) = NoPrime THEN StopIteration(m)
  ELSE vm_op_load(Watched(m, PRIME_IDX[Operand(data, FALSE)], "r", "WATCH:read"), data)

vm_op_store(m, data) ==
  LET p == Operand(data, FALSE)
  IN  IF p = NoPrime THEN StopIteration(m)
      ELSE IF m.stack = << >> THEN Raise(m, "StackUnderflow")
      ELSE LET r == store(DropN(m, 1), PRIME_IDX[p], Top(m))
           IN  IF r.err # "" THEN Raise(r.m, "MemoryAccess") ELSE r.m

op_store(m, data) ==
  IF Operand(data, FALSE) = NoPrime THEN StopIteration(m)
  ELSE vm_op_store(Watched(m, PRIME_IDX[Operand(data, FALSE)], "w", "WATCH:write"), data)

op_jmp(m, data) ==
  IF Operand(data, TRUE) = NoPrime THEN StopIteration(m)
  ELSE [m EXCEPT !.ip = @ + Displacement(data)]

\* VM._op_jz (whenZero) and VM._op_jnz.
op_jcond(m, data, whenZero) ==
  IF Operand(data, TRUE) = NoPrime THEN StopIteration(m)
  ELSE IF m.stack = << >> THEN Raise(m, "StackUnderflow")
  ELSE IF IsZero(Top(m)) = whenZero
       THEN [DropN(m, 1) EXCEPT !.ip = @ + Displacement(data)]
       ELSE DropN(m, 1)

\* CallStackTracker.push and pop (src/uor/debugger/call_stack.py).
tracker_push(frames, call_site, return_ip) ==
  Append(frames, [call_site |-> call_site, return_ip |-> return_ip])

tracker_pop(frames) ==
  IF frames = << >> THEN frames ELSE SubSeq(frames, 1, Len(frames) - 1)

\* A RET that leaves the tracker alone.
op_ret_untracked(m) ==
  IF m.call_stack # << >>
  THEN [m EXCEPT !.ip = m.call_stack[Len(m.call_stack)],
                 !.call_stack = SubSeq(@, 1, Len(@) - 1)]
  ELSE m

op_call(m, data) ==
  IF Operand(data, TRUE) = NoPrime THEN StopIteration(m)
  ELSE [m EXCEPT !.call_stack = Append(@, m.ip),
                 !.frames = IF m.tracker THEN tracker_push(@, m.ip - 1, m.ip) ELSE @,
                 !.ip = @ + Displacement(data)]

op_ret(m) ==
  IF m.call_stack # << >>
  THEN [m EXCEPT !.ip = m.call_stack[Len(m.call_stack)],
                 !.call_stack = SubSeq(@, 1, Len(@) - 1),
                 !.frames = IF m.tracker THEN tracker_pop(@) ELSE @]
  ELSE m

\* _op_alloc once allocate returned or raised: a MemoryError becomes
\* MemoryAccessError, the address is pushed otherwise.
Allocated(r) ==
  IF r.err = "IndexError" THEN RaisePy(r.m, "IndexError")
  ELSE IF r.err # "" THEN Raise(r.m, "MemoryAccess")
  ELSE Push(r.m, I(r.addr))

op_alloc(m, data) ==
  IF Operand(data, FALSE) = NoPrime THEN StopIteration(m)
  ELSE Allocated(allocate(m, PRIME_IDX[Operand(data, FALSE)]))

op_free(m, data) ==
  LET p == Operand(data, FALSE)
  IN  IF p = NoPrime THEN StopIteration(m) ELSE free(m, PRIME_IDX[p])

\* An INPUT that reads the head of the queue and leaves it there.
op_input_peek(m) ==
  IF m.io_in # << >> THEN Push(m, Head(m.io_in)) ELSE Push(m, I(0))

op_input(m) ==
  IF m.io_in # << >>
  THEN Push([m EXCEPT !.io_in = Tail(@)], Head(m.io_in))
  ELSE Push(m, I(0))

op_output(m) ==
  IF m.stack = << >> THEN Raise(m, "StackUnderflow")
  ELSE Yield([DropN(m, 1) EXCEPT !.io_out = Append(@, Top(m))], Top(m))

op_print(m) ==
  IF m.stack = << >> THEN Raise(m, "StackUnderflow")
  ELSE Yield(DropN(m, 1), Top(m))

op_verify(m) ==
  IF m.stack = << >> THEN Raise(m, "StackUnderflow")
  ELSE IF Len(m.stack) < 2 THEN Raise(DropN(m, 1), "StackUnderflow")
  ELSE LET v == Top(m)
           sig == m.stack[Len(m.stack) - 1]
       IN  IF ~Integral(v) THEN Capped(DropN(m, 2))
           ELSE Push(DropN(m, 2),
                     I(IF Cmp(sig, [v EXCEPT !.n = @ + 1]) = 0 THEN 1 ELSE 0))

op_trace(m) == Yield(m, IF m.stack # << >> THEN Top(m) ELSE I(0))

op_dup(m) ==
  IF m.stack = << >> THEN Raise(m, "StackUnderflow") ELSE Push(m, Top(m))

op_swap(m) ==
  IF Len(m.stack) < 2 THEN Raise(m, "StackUnderflow")
  ELSE LET n == Len(m.stack)
       IN  [m EXCEPT !.stack = SubSeq(@, 1, n - 2) \o <<m.stack[n], m.stack[n - 1]>>]

op_rot(m) ==
  IF Len(m.stack) < 3 THEN Raise(m, "StackUnderflow")
  ELSE LET n == Len(m.stack)
       IN  [m EXCEPT !.stack = SubSeq(@, 1, n - 3)
                                 \o <<m.stack[n - 1], m.stack[n], m.stack[n - 2]>>]

\* A DROP that checks the stack and pops nothing.
op_drop_kept(m) ==
  IF m.stack = << >> THEN Raise(m, "StackUnderflow") ELSE m

op_drop(m) ==
  IF m.stack = << >> THEN Raise(m, "StackUnderflow") ELSE DropN(m, 1)

op_over(m) ==
  IF Len(m.stack) < 2 THEN Raise(m, "StackUnderflow")
  ELSE Push(m, m.stack[Len(m.stack) - 1])

op_pick(m) ==
  IF m.stack = << >> THEN Raise(m, "StackUnderflow")
  ELSE LET idx == Top(m)
           m1 == DropN(m, 1)
       IN  IF Cmp(idx, I(0)) < 0 \/ Cmp(idx, I(Len(m1.stack))) >= 0
           THEN Raise(m1, "StackUnderflow")
           ELSE IF ~IsInt(idx) THEN RaisePy(m1, "TypeError")
           ELSE Push(m1, m1.stack[Len(m1.stack) - idx.n])

\* The keys of VM._dispatch.
DispatchOps ==
  {opcode.OP_PUSH, opcode.OP_ADD, opcode.OP_SUB, opcode.OP_MUL,
   opcode.OP_LOAD, opcode.OP_STORE, opcode.OP_JMP, opcode.OP_JZ,
   opcode.OP_JNZ,
   opcode.OP_PRINT, opcode.OP_CALL, opcode.OP_RET, opcode.OP_ALLOC,
   opcode.OP_FREE, opcode.OP_DIV, opcode.OP_MOD, opcode.OP_AND, opcode.OP_OR,
   opcode.OP_XOR, opcode.OP_SHL, opcode.OP_SHR, opcode.OP_NEG, opcode.OP_FMUL,
   opcode.OP_FDIV, opcode.OP_F2I, opcode.OP_I2F,
   opcode.OP_SYSCALL, opcode.OP_INT, opcode.OP_HALT, opcode.OP_NOP,
   opcode.OP_HASH, opcode.OP_SIGN, opcode.OP_VERIFY, opcode.OP_RNG,
   opcode.OP_BRK, opcode.OP_TRACE, vm_opcode.OP_DEBUG, vm_opcode.OP_ATOMIC,
   opcode.OP_INPUT, opcode.OP_OUTPUT, opcode.OP_NET_SEND,
   opcode.OP_NET_RECV, opcode.OP_THREAD_START, opcode.OP_THREAD_JOIN,
   opcode.OP_CHECKPOINT, vm_opcode.OP_NOT, vm_opcode.OP_GT,
   vm_opcode.OP_LT, vm_opcode.OP_EQ, vm_opcode.OP_NEQ, vm_opcode.OP_GTE,
   vm_opcode.OP_LTE, vm_opcode.OP_DUP, vm_opcode.OP_SWAP, vm_opcode.OP_ROT,
   vm_opcode.OP_DROP,
   vm_opcode.OP_OVER, vm_opcode.OP_PICK}

\* self._dispatch[op](data), for op in DispatchOps; plen is _program_len.
Handler(m, op, data, plen) ==
  CASE op = opcode.OP_PUSH -> op_push(m, data)
    [] op = opcode.OP_ADD -> binary_op(m, "add")
    [] op = opcode.OP_SUB -> binary_op(m, "sub")
    [] op = opcode.OP_MUL -> binary_op(m, "mul")
    [] op = opcode.OP_LOAD -> op_load(m, data)
    [] op = opcode.OP_STORE -> op_store(m, data)
    [] op = opcode.OP_JMP -> op_jmp(m, data)
    [] op = opcode.OP_JZ -> op_jcond(m, data, TRUE)
    [] op = opcode.OP_JNZ -> op_jcond(m, data, FALSE)
    [] op = opcode.OP_PRINT -> op_print(m)
    [] op = opcode.OP_CALL -> op_call(m, data)
    [] op = opcode.OP_RET -> op_ret(m)
    [] op = opcode.OP_ALLOC -> op_alloc(m, data)
    [] op = opcode.OP_FREE -> op_free(m, data)
    [] op = opcode.OP_DIV -> division_op(m, "floordiv")
    [] op = opcode.OP_MOD -> division_op(m, "mod")
    [] op = opcode.OP_AND -> binary_op(m, "and")
    [] op = opcode.OP_OR -> binary_op(m, "or")
    [] op = opcode.OP_XOR -> binary_op(m, "xor")
    [] op = opcode.OP_SHL -> binary_op(m, "shl")
    [] op = opcode.OP_SHR -> binary_op(m, "shr")
    [] op = opcode.OP_NEG -> unary_op(m, "neg")
    [] op = opcode.OP_FMUL -> binary_op(m, "fmul")
    [] op = opcode.OP_FDIV -> division_op(m, "fdiv")
    [] op = opcode.OP_F2I -> unary_op(m, "f2i")
    [] op = opcode.OP_I2F -> unary_op(m, "i2f")
    [] op \in {opcode.OP_SYSCALL, opcode.OP_INT, opcode.OP_NET_RECV} -> Push(m, I(0))
    [] op = opcode.OP_HALT -> [m EXCEPT !.ip = plen]
    [] op \in {opcode.OP_NOP, opcode.OP_NET_SEND, opcode.OP_THREAD_START,
    opcode.OP_THREAD_JOIN, opcode.OP_CHECKPOINT} -> m
    [] op = opcode.OP_HASH -> unary_op(m, "hash")
    [] op = opcode.OP_SIGN -> unary_op(m, "sign")
    [] op = opcode.OP_VERIFY -> op_verify(m)
    [] op = opcode.OP_RNG -> Push(m, I(4))
    [] op = opcode.OP_BRK -> Yield(m, Str("BRK"))
    [] op = opcode.OP_TRACE -> op_trace(m)
    [] op = vm_opcode.OP_DEBUG -> Yield(m, Str("DEBUG"))
    [] op = vm_opcode.OP_ATOMIC -> [m EXCEPT !.atomic = ~@]
    [] op = opcode.OP_INPUT -> op_input(m)
    [] op = opcode.OP_OUTPUT -> op_output(m)
    [] op = vm_opcode.OP_NOT -> unary_op(m, "not")
    [] op = vm_opcode.OP_GT -> binary_op(m, "gt")
    [] op = vm_opcode.OP_LT -> binary_op(m, "lt")
    [] op = vm_opcode.OP_EQ -> binary_op(m, "eq")
    [] op = vm_opcode.OP_NEQ -> binary_op(m, "neq")
    [] op = vm_opcode.OP_GTE -> binary_op(m, "gte")
    [] op = vm_opcode.OP_LTE -> binary_op(m, "lte")
    [] op = vm_opcode.OP_DUP -> op_dup(m)
    [] op = vm_opcode.OP_SWAP -> op_swap(m)
    [] op = vm_opcode.OP_ROT -> op_rot(m)
    [] op = vm_opcode.OP_DROP -> op_drop(m)
    [] op = vm_opcode.OP_OVER -> op_over(m)
    [] op = vm_opcode.OP_PICK -> op_pick(m)

(***************************************************************************)
(* JIT blocks (src/uor/jit/compiler.py) and the dispatch loop of           *)
(* VM.execute.                                                             *)
(***************************************************************************)
\* next(p for p, e in data if e == 4); NoPrime when there is none.
OpcodeOf(data) ==
  LET S == {k \in 1..Len(data) : data[k][2] = 4}
  IN  IF S = {} THEN NoPrime ELSE data[SetMin(S)][1]

\* The opcodes _compile_native translates to C.
supported == {opcode.OP_PUSH, opcode.OP_ADD, opcode.OP_SUB, opcode.OP_MUL,
   opcode.OP_DIV, opcode.OP_MOD, opcode.OP_NEG}

\* What an out-of-bounds access of the C block can do: kill the process, or
\* go on having read a zero or a non-zero word.
UBOutcomes == {"crash", "zero", "nonzero"}

Crash(m) == RaisePy(m, "Crash")

\* C's / and % on longs: truncation toward zero, b # 0.
CDiv(a, b) ==
  LET q == Abs(a) \div Abs(b)
  IN  IF (a < 0) = (b < 0) THEN q ELSE -q
CMod(a, b) == a - b * CDiv(a, b)

\* size = len(vm.stack) + 32 words are handed to the C function.
NATIVE_SLACK == 32

\* vm.stack = list(arr)[: sp + 1] for the sp the C code leaves, the array
\* itself untouched.
Resliced(stack, sp) ==
  LET size == Len(stack) + NATIVE_SLACK
      arr == [i \in 1..size |-> IF i <= Len(stack) THEN stack[i] ELSE I(0)]
      stop == IF sp + 1 < 0 THEN size + sp + 1 ELSE sp + 1
  IN  SubSeq(arr, 1, stop)

\* The block function built by _compile_native for one instruction.
native_block(m, instr, ub) ==
  LET op == OpcodeOf(instr.data)
      n == Len(m.stack)
      done(st) ==
        IF \E i \in 1..Len(st) : Abs(st[i].n) > MaxVal THEN Capped(m)
        ELSE [m EXCEPT !.stack = st, !.ip = @ + 1]
      front == SubSeq(m.stack, 1, n - 2)
      a == m.stack[n - 1]
      b == m.stack[n]
  IN  IF \E i \in 1..n : ~IsInt(m.stack[i]) THEN RaisePy(m, "TypeError")
      ELSE CASE op = opcode.OP_PUSH ->
                  done(Append(m.stack, I(PRIME_IDX[Operand(instr.data, FALSE)])))
             [] op \in {opcode.OP_ADD, opcode.OP_SUB, opcode.OP_MUL} ->
                  IF n >= 2
                  THEN done(Append(front,
                              I(CASE op = opcode.OP_ADD -> a.n + b.n
                                  [] op = opcode.OP_SUB -> a.n - b.n
                                  [] op = opcode.OP_MUL -> a.n * b.n)))
                  ELSE IF ub = "crash" THEN Crash(m)
                  ELSE done(Resliced(m.stack, n - 2))
             [] op \in {opcode.OP_DIV, opcode.OP_MOD} ->
                  IF n >= 2
                  THEN IF b.n = 0 THEN done(m.stack)
                       ELSE done(Append(front,
                                   I(IF op = opcode.OP_DIV THEN CDiv(a.n, b.n)
                                     ELSE CMod(a.n, b.n))))
                  ELSE IF n = 1
                  THEN IF b.n = 0 THEN done(m.stack)
                       ELSE IF ub = "crash" THEN Crash(m)
                       ELSE done(Resliced(m.stack, n - 2))
                  ELSE IF ub = "crash" THEN Crash(m)
                       ELSE IF ub = "zero" THEN done(m.stack)
                       ELSE done(Resliced(m.stack, n - 2))
             [] op = opcode.OP_NEG ->
                  IF n >= 1
                  THEN done(Append(SubSeq(m.stack, 1, n - 1), I(-b.n)))
                  ELSE IF ub = "crash" THEN Crash(m)
                  ELSE done(Resliced(m.stack, n - 1))

\* vm.ip += len(instructions) at the end of a block of one instruction,
\* reached unless the block raised.
Advanced(m) == IF m.status = "running" THEN [m EXCEPT !.ip = @ + 1] ELSE m

\* The block function built by _compile_py for one instruction: the handler
\* runs with vm.ip still at the instruction, and vm.ip is advanced afterwards.
py_block(m, instr, plen) ==
  LET op == OpcodeOf(instr.data)
  IN  IF op = NoPrime THEN StopIteration(m)
      ELSE IF op \notin DispatchOps THEN RaisePy(m, "KeyError")
      ELSE Advanced(Handler(m, op, instr.data, plen))

\* Whether compile_block yields a native block for the instruction.
IsNative(jit, instr) == jit.native /\ OpcodeOf(instr.data) \in supported

\* JITCompiler.compile_block([instr]) as called from execute: the entry is
\* recorded, or _compile_native raises StopIteration on a PUSH without operand.
compile_block(m, jit, instr) ==
  IF IsNative(jit, instr) /\ OpcodeOf(instr.data) = opcode.OP_PUSH
     /\ Operand(instr.data, FALSE) = NoPrime
  THEN StopIteration(m)
  ELSE [m EXCEPT !.compiled = @ \cup {m.ip}]

\* program[self.ip] with Python's indexing of a list.
PyIndex(program, ip) ==
  IF ip < 0 THEN program[Len(program) + ip + 1] ELSE program[ip + 1]

\* A range check that forgets the lower bound.
IpOutOfRange_UpperOnly(ip, plen) == ip > plen

\* self.ip < 0 or self.ip > len(program)
IpOutOfRange(ip, plen) == ip < 0 \/ ip > plen

SegmentationFault(m) ==
  [m EXCEPT !.status = "error",
            !.err = [kind |-> "SegmentationFault", ip |-> m.ip, has_ip |-> TRUE]]

Counted(m) == [m EXCEPT !.executed_instructions = @ + 1]

\* A VM created for the children of a BLOCK or NTT instruction.
SubJit(jit) == [available |-> TRUE, threshold |-> JIT_THRESHOLD, native |-> jit.native]

RECURSIVE Step(_, _, _, _, _)
RECURSIVE Run(_, _, _)

\* The outer machine after the sub-VM ended as sub: the sub-VM's output and
\* exception pass through the outer generator.
Merged(m, sub) ==
  IF sub.status = "halted" THEN Counted([m EXCEPT !.out = @ \o sub.out])
  ELSE [m EXCEPT !.out = @ \o sub.out, !.status = sub.status, !.err = sub.err]

\* DebugVM(): the machine DebugVM.__init__ leaves.
NewDebugVM ==
  [NewVM EXCEPT !.tracker = TRUE, !.debugger = [NoDebugger EXCEPT !.on = TRUE]]

\* for out in VM().execute(inner): yield out, and in a DebugVM
\* for out in DebugVM().execute(inner): yield out
SubExecute(m, inner, jit) ==
  Merged(m, Run(inner,
                [(IF m.debugger.on THEN NewDebugVM ELSE NewVM) EXCEPT !.status = "running"],
                SubJit(jit)))

\* A handler's result counts as an executed instruction unless it raised.
CountedIfRunning(m) == IF m.status = "running" THEN Counted(m) ELSE m

\* The body of the loop after self.ip += 1.
Interpret(m, instr, jit, plen) ==
  LET data == instr.data
      op == OpcodeOf(data)
      S == {k \in 1..Len(data) : data[k][2] \in {2, 3}}
  IN  IF HasPair(data, BLOCK_TAG, 7) \/ HasPair(data, NTT_TAG, 4)
      THEN SubExecute(m, instr.inner, jit)
      ELSE IF op # NoPrime
      THEN IF op \notin DispatchOps THEN Raise(m, "InvalidOpcode")
           ELSE CountedIfRunning(Handler(m, op, data, plen))
      ELSE IF S = {} THEN RaisePy(m, "ValueError")
      ELSE Counted(Yield(m, Chr(PRIME_IDX[data[SetMin(S)][1]])))

\* A compiled block is registered for the instruction pointer: the block runs
\* in place of the interpreter.
RunBlock(m, jit, instr, plen, ub) ==
  CountedIfRunning(IF IsNative(jit, instr) THEN native_block(m, instr, ub)
                   ELSE py_block(m, instr, plen))

\* self._counter[self.ip] = self._counter.get(self.ip, 0) + 1
Hit(m) ==
  [m EXCEPT !.counter =
     [i \in DOMAIN @ \cup {m.ip} |->
        IF i \in DOMAIN @ THEN (IF i = m.ip THEN @[i] + 1 ELSE @[i]) ELSE 1]]

\* The instruction is compiled once its counter reaches the threshold.
Compiled(m, jit, instr) ==
  IF jit.available /\ m.counter[m.ip] >= jit.threshold /\ m.ip \notin m.compiled
  THEN compile_block(m, jit, instr)
  ELSE m

\* self.ip += 1 and the instruction's interpretation, unless compile_block
\* raised.
Fetched(m, instr, jit, plen) ==
  IF m.status # "running" THEN m
  ELSE Interpret([m EXCEPT !.ip = @ + 1], instr, jit, plen)

\* if self.tracing: yield f"TRACE:{self.ip}"
Traced(m) == IF m.debugger.tracing THEN Yield(m, Tag("TRACE", m.ip)) ELSE m

\* The pause of DebugVM.execute at a breakpoint or in step mode.
Paused(m) ==
  Yield([m EXCEPT !.debugger.step_mode = FALSE,
                  !.debugger.breakpoints = @ \ {m.ip}],
        Tag("BREAK", m.ip))

\* One iteration of the while loop of DebugVM.execute, which runs while
\* self.ip < len(program).
DebugStep(program, m, jit, expired, ub) ==
  IF ~(m.ip < Len(program)) THEN [m EXCEPT !.status = "halted"]
  ELSE IF m.ip \in m.debugger.breakpoints \/ m.debugger.step_mode THEN Paused(m)
  ELSE IF jit.available /\ m.ip \in m.compiled /\ ~expired
  THEN RunBlock(Traced(m), jit, PyIndex(program, m.ip), Len(program), ub)
  ELSE IF m.ip < -Len(program) THEN RaisePy(Traced(m), "IndexError")
  ELSE Fetched(Compiled(Hit([Traced(m) EXCEPT !.compiled = @ \ {m.ip}]), jit,
                        PyIndex(program, m.ip)),
               PyIndex(program, m.ip), jit, Len(program))

\* One iteration of the while loop of VM.execute.
Step(program, m, jit, expired, ub) ==
  IF m.debugger.on THEN DebugStep(program, m, jit, expired, ub)
  ELSE IF m.ip = Len(program) THEN [m EXCEPT !.status = "halted"]
  ELSE IF IpOutOfRange(m.ip, Len(program)) THEN SegmentationFault(m)
  ELSE IF m.ip < -Len(program) THEN RaisePy(m, "IndexError")
  ELSE IF jit.available /\ m.ip \in m.compiled /\ ~expired
  THEN RunBlock(m, jit, PyIndex(program, m.ip), Len(program), ub)
  ELSE Fetched(Compiled(Hit([m EXCEPT !.compiled = @ \ {m.ip}]), jit,
                        PyIndex(program, m.ip)),
               PyIndex(program, m.ip), jit, Len(program))

\* The run is about to execute one instruction more than the model follows.
AtCap(program, m) ==
  /\ m.executed_instructions >= MaxSteps
  /\ IF m.debugger.on THEN m.ip < Len(program)
     ELSE m.ip # Len(program) /\ ~IpOutOfRange(m.ip, Len(program))

\* VM.execute run to its end, or to the length the model follows.
Run(program, m, jit) ==
  IF m.status # "running" THEN m
  ELSE IF AtCap(program, m) THEN Capped(m)
  ELSE Run(program, Step(program, m, jit, FALSE, "crash"), jit)

(***************************************************************************)
(* Bounds.                                                                 *)
(***************************************************************************)
MaxOperand == 17
MaxPos == 4
MaxAllocSize == 3
MaxMemOps == 4
MaxRoots == 1

(***************************************************************************)
(* State.                                                                  *)
(***************************************************************************)
VARIABLES
  cpc,      \* codec round trip: "idle", "encoded", "decoded"
  call,     \* the encoder call under test
  chunk,    \* the chunk the encoder produced
  decoded,  \* the result of decode([chunk])
  mvm,      \* a SegmentedMemory driven through its API, with its owner's roots
  mlast,    \* the last memory call: its name and error, the machine before a collect
  program,  \* the decoded program being executed
  jit,      \* the JIT settings of vm: available, threshold, native (gcc works)
  vm,       \* the machine executing program with the JIT available
  ivm,      \* the machine executing program with the JIT unavailable
  vh,       \* the last loop iteration of vm and the values its STOREs wrote
  ih,       \* the same for ivm
  tpc,      \* spectral pre-pass: "idle", "forward" (after _ntt), "inverse" (after _intt)
  vec,      \* the data vector of an NTT-framed region
  tvec,     \* the vector the pre-pass has computed so far
  cache,    \* an InstructionCache: max_size, _data in OrderedDict order, _lock, _hits, _misses
  th,       \* per thread: the cache call in progress and where it stands
  ch,       \* what has been asked of the cache: calls, gets, keys by recency of use, puts
  lists,    \* the payload lists decoded so far, by identity: lists[id] is the content
  rec,      \* the record _decode_single last returned: the identity of its data, its inner
  pt,       \* the prime table of primes.py: _PRIMES, _PRIME_IDX, _sieve_limit
  fc,       \* _FACTOR_CACHE (kept alive by _FACTOR_STRONG): x -> identity of its FactorList
  pcall     \* the last call into primes.py, and the results factor first gave

vars ==
  <<cpc, call, chunk, decoded, mvm, mlast, program, jit, vm, ivm, vh, ih,
    tpc, vec, tvec, cache, th, ch, lists, rec, pt, fc, pcall>>

codecVars == <<cpc, call, chunk, decoded>>
memVars == <<mvm, mlast>>
vmVars == <<program, jit, vm, ivm, vh, ih>>
nttVars == <<tpc, vec, tvec>>
cacheVars == <<cache, th, ch>>
recVars == <<lists, rec>>
primeVars == <<pt, fc, pcall>>
libVars == <<nttVars, cacheVars, recVars, primeVars>>

NoCall == [fn |-> "none", op |-> 0, a |-> 0, b |-> 0]

\* The opcodes that chunks.py encodes bare.
BareOps ==
  {opcode.OP_ADD, opcode.OP_SUB, opcode.OP_MUL, opcode.OP_PRINT,
   opcode.OP_RET, opcode.OP_INPUT, opcode.OP_OUTPUT,
   opcode.OP_NET_SEND, opcode.OP_NET_RECV, opcode.OP_THREAD_START,
   opcode.OP_THREAD_JOIN, opcode.OP_CHECKPOINT,
   opcode.OP_UN_INNER, opcode.OP_UN_NORM, opcode.OP_UN_TRANS, opcode.OP_UN_DWT,
   opcode.OP_DIV, opcode.OP_MOD, opcode.OP_AND, opcode.OP_OR, opcode.OP_XOR,
   opcode.OP_SHL, opcode.OP_SHR, opcode.OP_NEG,
   opcode.OP_FMUL, opcode.OP_FDIV, opcode.OP_F2I, opcode.OP_I2F,
   opcode.OP_SYSCALL, opcode.OP_INT, opcode.OP_HALT, opcode.OP_NOP,
   opcode.OP_HASH, opcode.OP_SIGN, opcode.OP_VERIFY, opcode.OP_RNG, opcode.OP_BRK, opcode.OP_TRACE}

OperandOps == {opcode.OP_PUSH, opcode.OP_LOAD, opcode.OP_STORE,
   opcode.OP_ALLOC, opcode.OP_FREE, opcode.OP_UN_CREATE, opcode.OP_UN_GRADE}
SignedOps == {opcode.OP_JMP, opcode.OP_JZ, opcode.OP_JNZ, opcode.OP_CALL}

EncoderCalls ==
  [fn : {"bare"}, op : BareOps, a : {0}, b : {0}]
  \cup [fn : {"operand"}, op : OperandOps, a : 0..MaxOperand, b : {0}]
  \cup [fn : {"signed"}, op : SignedOps, a : (-MaxOperand)..MaxOperand, b : {0}]
  \cup [fn : {"block_start", "ntt"}, op : {0}, a : 0..MaxOperand, b : {0}]
  \cup [fn : {"data"}, op : {0}, a : 0..MaxPos, b : 0..MaxOperand]

Encode(c) ==
  CASE c.fn = "bare" -> chunk_bare(c.op)
    [] c.fn = "operand" -> chunk_operand(c.op, c.a)
    [] c.fn = "signed" -> chunk_signed(c.op, c.a)
    [] c.fn = "block_start" -> chunk_block_start(c.a)
    [] c.fn = "ntt" -> chunk_ntt(c.a)
    [] c.fn = "data" -> chunk_data(c.a, c.b)

NoDecoded == [err |-> "none", result |-> << >>]

CodecIdle ==
  /\ cpc = "idle"
  /\ call = NoCall
  /\ chunk = EmptyBag
  /\ decoded = NoDecoded

NoMemCall == [op |-> "none", pre |-> NewVM, err |-> "", n |-> 0]

MemIdle ==
  /\ mvm = NewVM
  /\ mlast = NoMemCall

JitOff == [available |-> FALSE, threshold |-> JIT_THRESHOLD, native |-> FALSE]

NoStep ==
  [ip |-> 0, kind |-> "none", op |-> NoPrime, arg |-> 0, jitted |-> FALSE,
   ok |-> FALSE, stored |-> << >>]

VMIdle ==
  /\ program = << >>
  /\ jit = JitOff
  /\ vm = NewVM
  /\ ivm = NewVM
  /\ vh = NoStep
  /\ ih = NoStep

\* No library routine has been called on its own.
NttIdle ==
  /\ tpc = "idle"
  /\ vec = << >>
  /\ tvec = << >>

CacheIdle ==
  /\ cache = << >>
  /\ th = << >>
  /\ ch = << >>

NoRecord == [data |-> 0, inner |-> << >>]

RecIdle ==
  /\ lists = << >>
  /\ rec = NoRecord

PrimesIdle ==
  /\ pt = << >>
  /\ fc = << >>
  /\ pcall = << >>

LibIdle == NttIdle /\ CacheIdle /\ RecIdle /\ PrimesIdle

InitCodec == CodecIdle /\ MemIdle /\ VMIdle /\ LibIdle

\* An encoder function of chunks.py is called.
EncodeChunk ==
  /\ cpc = "idle"
  /\ \E c \in EncoderCalls :
       /\ call' = c
       /\ chunk' = Encode(c)
  /\ cpc' = "encoded"
  /\ UNCHANGED <<decoded, memVars, vmVars, libVars>>

\* decode([chunk]).
DecodeChunk ==
  /\ cpc = "encoded"
  /\ decoded' = decode(<<chunk>>)
  /\ cpc' = "decoded"
  /\ UNCHANGED <<call, chunk, memVars, vmVars, libVars>>

NextCodec == EncodeChunk \/ DecodeChunk

SpecCodec == InitCodec /\ [][NextCodec]_vars

\* C2: every chunk an encoder function of chunks.py produces decodes, and
\* re-encoding the decoded payload (product of prime^exponent times the
\* checksum prime to the sixth) gives back exactly the chunk.
C2_EncodeDecodeRoundTrip ==
  cpc = "decoded" =>
    /\ decoded.err = "none"
    /\ Len(decoded.result) = 1
    /\ reencode(decoded.result[1].data) = chunk

\* A chunk whose factorisation holds BLOCK_TAG^7 and a separate prime with
\* exponent 6, and no other exponent of 6 or more.
BlockWithSeparateChecksum(c) ==
  /\ BLOCK_TAG \in DOMAIN c
  /\ c[BLOCK_TAG] = 7
  /\ \E q \in (DOMAIN c) \ {BLOCK_TAG} :
       /\ c[q] = 6
       /\ \A r \in (DOMAIN c) \ {BLOCK_TAG, q} : c[r] < 6

\* C3: a chunk with BLOCK_TAG^7 and a separate checksum prime of exponent 6
\* is not rejected, and (BLOCK_TAG, 7) is kept as a payload entry, whichever
\* of the two primes is smaller; so chunk_block_start(N) decodes to a
\* payload containing (BLOCK_TAG, 7).
C3_BlockTagIsPayload ==
  (cpc = "decoded" /\ call.fn = "block_start" /\ BlockWithSeparateChecksum(chunk)) =>
    /\ decoded.err = "none"
    /\ HasPair(decoded.result[1].data, BLOCK_TAG, 7)

(***************************************************************************)
(* SegmentedMemory driven through allocate, store, free and collect, with  *)
(* the owner's operand stack and call stack as roots.                      *)
(***************************************************************************)
HeapAddrs == HEAP_START..(STACK_START - 1)
PageStarts == {HEAP_START + p * PAGE_SIZE : p \in 0..((HEAP_SIZE \div PAGE_SIZE) - 1)}
StoreAddrs == {DATA_START, HEAP_START + PAGE_SIZE, STACK_START}
RootVals == {0} \cup HeapAddrs

InitMem == CodecIdle /\ MemIdle /\ VMIdle /\ LibIdle

MemCall(op, m, err) ==
  /\ mlast.n < MaxMemOps
  /\ mvm' = m
  /\ mlast' = [op |-> op, pre |-> IF op = "collect" THEN mvm ELSE NewVM,
               err |-> err, n |-> mlast.n + 1]
  /\ UNCHANGED <<codecVars, vmVars, libVars>>

MemAllocate ==
  \E size \in 0..MaxAllocSize :
    LET r == allocate(mvm, size) IN MemCall("allocate", r.m, r.err)

MemStore ==
  \E addr \in StoreAddrs, v \in RootVals :
    LET r == store(mvm, addr, I(v)) IN MemCall("store", r.m, r.err)

MemFree ==
  \E addr \in PageStarts : MemCall("free", free(mvm, addr), "")

MemCollect == MemCall("collect", collect(mvm), "")

\* The owner pushes a value on its operand stack.
MemPushStack ==
  /\ Len(mvm.stack) < MaxRoots
  /\ \E v \in RootVals :
       MemCall("push", [mvm EXCEPT !.stack = Append(@, I(v))], "")

\* The owner pushes a return address on its call stack.
MemPushCall ==
  /\ Len(mvm.call_stack) < MaxRoots
  /\ \E v \in RootVals :
       MemCall("call", [mvm EXCEPT !.call_stack = Append(@, v)], "")

NextMem ==
  \/ MemAllocate
  \/ MemStore
  \/ MemFree
  \/ MemCollect
  \/ MemPushStack
  \/ MemPushCall

SpecMem == InitMem /\ [][NextMem]_vars

\* The integers among the roots of a collection: operand stack, call stack
\* and every data, heap and stack cell.
RootInts(m) ==
  {m.stack[k].n : k \in {j \in 1..Len(m.stack) : IsInt(m.stack[j])}}
  \cup SeqToSet(m.call_stack)
  \cup {m.cells[a].n : a \in {b \in DOMAIN m.cells : IsInt(m.cells[b])}}

\* The root r equals the allocation's start or falls inside its pages.
Refers(r, info) ==
  \/ r = info.start
  \/ /\ HEAP_START <= r
     /\ r < STACK_START
     /\ page_for(r) \in SeqToSet(info.pages)

Referenced(m, info) == \E r \in RootInts(m) : Refers(r, info)

PageCells(info) ==
  {HEAP_START + p * PAGE_SIZE + o : p \in SeqToSet(info.pages), o \in 0..(PAGE_SIZE - 1)}

\* C4: collect never frees an allocation that a root refers to: it stays in
\* the allocation table, none of its pages is free and its cells keep their
\* values, on whichever page the allocation lies.
C4_CollectKeepsReferenced ==
  mlast.op = "collect" =>
    \A k \in 1..Len(mlast.pre.allocations) :
      LET info == mlast.pre.allocations[k]
      IN  Referenced(mlast.pre, info) =>
            /\ info \in SeqToSet(mvm.allocations)
            /\ SeqToSet(info.pages) \cap mvm.free_pages = {}
            /\ \A a \in PageCells(info) :
                 /\ (a \in DOMAIN mvm.cells) = (a \in DOMAIN mlast.pre.cells)
                 /\ a \in DOMAIN mvm.cells => mvm.cells[a] = mlast.pre.cells[a]

\* C5: collect reclaims every allocation that no root refers to: it leaves
\* the allocation table, its pages are free again and its cells are cleared.
C5_CollectFreesUnreferenced ==
  mlast.op = "collect" =>
    \A k \in 1..Len(mlast.pre.allocations) :
      LET info == mlast.pre.allocations[k]
      IN  ~Referenced(mlast.pre, info) =>
            /\ \A j \in 1..Len(mvm.allocations) : mvm.allocations[j].start # info.start
            /\ SeqToSet(info.pages) \subseteq mvm.free_pages
            /\ PageCells(info) \cap DOMAIN mvm.cells = {}

(***************************************************************************)
(* Programs executed by the interpreter and, side by side, by the JIT.     *)
(***************************************************************************)
MaxProgLen == 3
MaxMemProgLen == 4
MaxThreshold == 2

Bare(op) == [fn |-> "bare", op |-> op, a |-> 0, b |-> 0]
WithOperand(op, a) == [fn |-> "operand", op |-> op, a |-> a, b |-> 0]
Signed(op, a) == [fn |-> "signed", op |-> op, a |-> a, b |-> 0]

\* Encoder calls the control-flow programs are assembled from.
ControlCalls ==
  {WithOperand(opcode.OP_PUSH, 1), Bare(opcode.OP_RNG), Bare(opcode.OP_DIV),
   Bare(opcode.OP_PRINT), Signed(opcode.OP_JMP, -3), Signed(opcode.OP_JMP, 1),
   Signed(opcode.OP_CALL, 1), Bare(opcode.OP_RET), WithOperand(opcode.OP_ALLOC, 0),
   [fn |-> "data", op |-> 0, a |-> 0, b |-> 1],
   [fn |-> "ntt", op |-> 0, a |-> 1, b |-> 0]}

\* Encoder calls the memory programs are assembled from.
MemoryCalls ==
  {WithOperand(opcode.OP_PUSH, 1),
   WithOperand(opcode.OP_STORE, HEAP_START), WithOperand(opcode.OP_LOAD, HEAP_START),
   WithOperand(opcode.OP_STORE, DATA_START), WithOperand(opcode.OP_LOAD, DATA_START),
   WithOperand(opcode.OP_ALLOC, 1), WithOperand(opcode.OP_FREE, HEAP_START)}

CallSeqs(calls, maxLen) == UNION {[1..n -> calls] : n \in 1..maxLen}

JitConfigs ==
  [available : {TRUE}, threshold : 1..MaxThreshold, native : BOOLEAN]

Boot == [NewVM EXCEPT !.status = "running"]

\* decode(chunks) of the encoded calls is handed to VM.execute on two
\* machines, one of them with its JIT made unavailable.
InitVM(calls, maxLen) ==
  /\ CodecIdle
  /\ MemIdle
  /\ LibIdle
  /\ \E cs \in CallSeqs(calls, maxLen) :
       LET d == decode([k \in 1..Len(cs) |-> Encode(cs[k])])
       IN  /\ d.err = "none"
           /\ program = d.result
  /\ jit \in JitConfigs
  /\ vm = Boot
  /\ ivm = Boot
  /\ vh = NoStep
  /\ ih = NoStep

InitControl == InitVM(ControlCalls, MaxProgLen)
InitMemory == InitVM(MemoryCalls, MaxMemProgLen)

WritableSegments == {"DATA", "HEAP", "STACK"}

\* How execute treats the instruction it fetched.
InstrKind(data) ==
  IF HasPair(data, BLOCK_TAG, 7) THEN "block"
  ELSE IF HasPair(data, NTT_TAG, 4) THEN "ntt"
  ELSE IF OpcodeOf(data) # NoPrime THEN "op"
  ELSE "data"

\* The record of one loop iteration taking machine m to m2: where it
\* started, what it fetched, and the value each address last received from a
\* STORE (clean: no ALLOC or FREE has run since then).
Observe(h, m, m2, j, expired) ==
  LET plen == Len(program)
  IN  IF m.ip = plen THEN [h EXCEPT !.ip = m.ip, !.kind = "end", !.ok = TRUE]
      ELSE IF m.ip < 0 \/ m.ip > plen
      THEN [h EXCEPT !.ip = m.ip, !.kind =
                       IF m2.err.kind = "SegmentationFault" THEN "fault" ELSE "op",
                     !.ok = m2.status = "running"]
      ELSE
        LET data == PyIndex(program, m.ip).data
            jitted == j.available /\ m.ip \in m.compiled /\ ~expired
            kind == IF jitted THEN "op" ELSE InstrKind(data)
            op == OpcodeOf(data)
            p == Operand(data, FALSE)
            arg == IF p = NoPrime THEN 0 ELSE PRIME_IDX[p]
            ok == m2.status = "running"
            isOp(o) == kind = "op" /\ op = o
            st == h.stored
            stored ==
              IF isOp(opcode.OP_STORE) /\ ok /\ segment(arg) \in WritableSegments
              THEN [a \in DOMAIN st \cup {arg} |->
                      IF a = arg THEN [val |-> Top(m), clean |-> TRUE] ELSE st[a]]
              ELSE IF isOp(opcode.OP_ALLOC) \/ isOp(opcode.OP_FREE)
              THEN [a \in DOMAIN st |->
                      IF segment(a) = "HEAP" THEN [st[a] EXCEPT !.clean = FALSE]
                      ELSE st[a]]
              ELSE st
        IN  [ip |-> m.ip, kind |-> kind, op |-> op, arg |-> arg,
             jitted |-> jitted, ok |-> ok, stored |-> stored]

\* One loop iteration, unless the run has reached the length the model follows.
Advance(m, j, expired, ub) ==
  IF AtCap(program, m) THEN Capped(m)
  ELSE Step(program, m, j, expired, ub)

\* The machine with the JIT runs one iteration of the loop of execute.
JitStep ==
  /\ vm.status = "running"
  /\ \E expired \in BOOLEAN, ub \in UBOutcomes :
       LET m2 == Advance(vm, jit, expired, ub)
       IN  /\ vm' = m2
           /\ vh' = Observe(vh, vm, m2, jit, expired)
  /\ UNCHANGED <<codecVars, memVars, program, jit, ivm, ih, libVars>>

\* The machine without the JIT runs one iteration, once the other is done.
InterpStep ==
  /\ vm.status # "running"
  /\ ivm.status = "running"
  /\ LET m2 == Advance(ivm, JitOff, FALSE, "crash")
     IN  /\ ivm' = m2
         /\ ih' = Observe(ih, ivm, m2, JitOff, FALSE)
  /\ UNCHANGED <<codecVars, memVars, program, jit, vm, vh, libVars>>

NextVM == JitStep \/ InterpStep

SpecControl == InitControl /\ [][NextVM]_vars
SpecMemory == InitMemory /\ [][NextVM]_vars

Finished(m) == m.status \in {"halted", "error"}

\* What a run shows: output, operand stack, memory, call stack, instruction
\* pointer and the exception that ended it.
Observable(m) ==
  [out |-> m.out, stack |-> m.stack, cells |-> m.cells,
   allocations |-> m.allocations, free_pages |-> m.free_pages,
   io_out |-> m.io_out, call_stack |-> m.call_stack, ip |-> m.ip,
   status |-> m.status, err |-> m.err]

\* C1: a program run with the JIT enabled, at any threshold of at least 1,
\* ends with the same output, operand stack, memory, call stack, instruction
\* pointer and exception (kind and faulting IP) as with the JIT unavailable.
C1_JitEquivalence ==
  (Finished(vm) /\ Finished(ivm)) => Observable(vm) = Observable(ivm)

Machines == {vm, ivm}

\* C6: the operand stack never holds more than STACK_SIZE values.
C6_StackBounded ==
  \A m \in Machines : Len(m.stack) <= STACK_SIZE

\* The error kinds of src/uor/exceptions.py.
Taxonomy ==
  {"DivisionByZero", "MemoryAccess", "StackOverflow", "InvalidOpcode",
   "Checksum", "StackUnderflow", "SegmentationFault"}

\* The taxonomy errors the instruction handlers raise.
HandlerKinds == Taxonomy \ {"SegmentationFault", "Checksum"}

FaultAtInstruction(m, h) ==
  (m.status = "error" /\ h.kind = "op" /\ m.err.kind \in HandlerKinds) =>
    /\ m.err.has_ip
    /\ m.err.ip = h.ip

\* C7: a taxonomy error raised by an instruction handler carries the
\* instruction pointer of the instruction that faulted.
C7_FaultIp ==
  FaultAtInstruction(vm, vh) /\ FaultAtInstruction(ivm, ih)

\* C8: every failure that ends execution is an error of the taxonomy
\* (the kinds of exceptions.py, CoherenceViolation and BadData) with an
\* instruction pointer attached.
C8_OnlyTaxonomy ==
  \A m \in Machines :
    m.status = "error" =>
      /\ m.err.kind \in Taxonomy \cup {"CoherenceViolation", "BadData"}
      /\ m.err.has_ip

\* One iteration of the dispatch loop took machine m to m2.
Stepped(m, m2) == m.status = "running" /\ m2 # m

DispatchBounds(m, m2) ==
  Stepped(m, m2) =>
    /\ m.ip = Len(program) => m2 = [m EXCEPT !.status = "halted"]
    /\ (m.ip < 0 \/ m.ip > Len(program)) =>
         m2 = [m EXCEPT !.status = "error",
                        !.err = [kind |-> "SegmentationFault", ip |-> m.ip,
                                 has_ip |-> TRUE]]

\* C9: at the start of a dispatch step an instruction pointer equal to the
\* program length halts normally, and one below 0 or above the length
\* raises SegmentationFault carrying that pointer, nothing being fetched,
\* executed or output.
C9_DispatchBounds ==
  [][DispatchBounds(vm, vm') /\ DispatchBounds(ivm, ivm')]_vars

\* The interpreter found its instruction pointer below 0 at the start of a
\* step, with values on the stack, and raised SegmentationFault with it.
C9_Witness ==
  /\ ivm.status = "error"
  /\ ih.kind = "fault"
  /\ ih.ip < 0
  /\ ivm.err = [kind |-> "SegmentationFault", ip |-> ih.ip, has_ip |-> TRUE]
  /\ ivm.stack # << >>

\* The last iteration of machine m completed a LOAD of an address that a
\* completed STORE had written before.
LoadedStored(m, h) ==
  /\ h.kind = "op"
  /\ h.op = opcode.OP_LOAD
  /\ h.ok
  /\ h.arg \in DOMAIN h.stored

StoreLoad(m, h) ==
  (LoadedStored(m, h) /\ (segment(h.arg) = "HEAP" => h.stored[h.arg].clean)) =>
    Top(m) = h.stored[h.arg].val

InstrCalls ==
  {WithOperand(opcode.OP_PUSH, v) : v \in 0..MaxOperand}
  \cup {Signed(op, off) : op \in SignedOps, off \in (-MaxOperand)..MaxOperand}

\* Stacks the machine holds when the instruction is reached; the last one
\* leaves no room.
InstrStacks ==
  {<< >>, <<I(0)>>, <<I(1)>>, <<I(1), I(0)>>, [k \in 1..STACK_SIZE |-> I(0)]}

Copies(c, n) == [k \in 1..n |-> c]

\* The caller-visible part of a machine.
Visible(m) ==
  [stack |-> m.stack, call_stack |-> m.call_stack, ip |-> m.ip,
   io_in |-> m.io_in, io_out |-> m.io_out, out |-> m.out,
   cells |-> m.cells, allocations |-> m.allocations,
   free_pages |-> m.free_pages, status |-> m.status]

InitInstr == CodecIdle /\ MemIdle /\ VMIdle /\ LibIdle

EncodeInstr ==
  /\ cpc = "idle"
  /\ \E c \in InstrCalls :
       /\ call' = c
       /\ chunk' = Encode(c)
  /\ cpc' = "encoded"
  /\ UNCHANGED <<decoded, memVars, vmVars, libVars>>

\* decode of pos + 1 copies of the chunk; the machine is placed on the last.
LoadInstr ==
  /\ cpc = "encoded"
  /\ \E pos \in 0..MaxPos, st \in InstrStacks :
       LET d == decode(Copies(chunk, pos + 1))
       IN  /\ decoded' = d
           /\ IF d.err = "none" /\ Len(d.result) = pos + 1
              THEN /\ program' = d.result
                   /\ ivm' = [Boot EXCEPT !.ip = pos, !.stack = st]
                   /\ cpc' = "loaded"
              ELSE /\ cpc' = "rejected"
                   /\ UNCHANGED <<program, ivm>>
  /\ UNCHANGED <<call, chunk, memVars, jit, vm, vh, ih, libVars>>

\* One iteration of the loop of execute, without the JIT.
ExecuteInstr ==
  /\ cpc = "loaded"
  /\ ivm' = Step(program, ivm, JitOff, FALSE, "crash")
  /\ cpc' = "executed"
  /\ UNCHANGED <<call, chunk, decoded, memVars, program, jit, vm, vh, ih, libVars>>

NextInstr == EncodeInstr \/ LoadInstr \/ ExecuteInstr

SpecInstr == InitInstr /\ [][NextInstr]_vars

Executes == cpc = "loaded" /\ cpc' = "executed"

PushExecuted(m, m2, v) ==
  Visible(m2) = [Visible(m) EXCEPT !.ip = @ + 1, !.stack = Append(@, I(v))]

\* C11: for every v >= 0 the chunk of chunk_push(v) decodes, and executing it
\* on a machine with room on the stack appends exactly v to the stack and
\* changes nothing else but the instruction pointer, which advances by one.
C11_PushPushesOperand ==
  [][call.op = opcode.OP_PUSH =>
       /\ cpc' # "rejected"
       /\ (Executes /\ Len(ivm.stack) < STACK_SIZE) =>
            PushExecuted(ivm, ivm', call.a)]_vars

Taken(op, m) ==
  CASE op = opcode.OP_JZ -> Top(m) = I(0)
    [] op = opcode.OP_JNZ -> Top(m) # I(0)
    [] OTHER -> TRUE

Pops(op) == IF op \in {opcode.OP_JZ, opcode.OP_JNZ} THEN 1 ELSE 0

JumpExecuted(m, m2, op, off) ==
  /\ m2.status = "running"
  /\ m2.ip = m.ip + 1 + (IF Taken(op, m) THEN off ELSE 0)
  /\ m2.stack = SubSeq(m.stack, 1, Len(m.stack) - Pops(op))

\* C12: for every signed offset off the chunk of JMP, JZ, JNZ or CALL off
\* decodes, and executed at position i it sets the instruction pointer to
\* i + 1 + off when the jump is taken and to i + 1 otherwise; JZ (taken on
\* zero) and JNZ (taken on non-zero) pop exactly one value either way.
C12_JumpTarget ==
  [][call.op \in SignedOps =>
       /\ cpc' # "rejected"
       /\ (Executes /\ Len(ivm.stack) >= Pops(call.op)) =>
            JumpExecuted(ivm, ivm', call.op, call.a)]_vars

(***************************************************************************)
(* Framing instructions: a BLOCK or NTT header followed by its children,   *)
(* optionally after a PUSH and before a jump back to the header.           *)
(***************************************************************************)
MaxChildren == 4

Header(fn, n) == [fn |-> fn, op |-> 0, a |-> n, b |-> 0]

FrameHeaders == {Header(fn, n) : fn \in {"block_start", "ntt"}, n \in 1..MaxChildren}

ChildCalls == {WithOperand(opcode.OP_PUSH, 1), Bare(opcode.OP_PRINT)}

FrameSeqs ==
  UNION {{pre \o <<h>> \o kids \o tail :
            pre \in {<< >>, <<WithOperand(opcode.OP_PUSH, 1)>>},
            kids \in [1..h.a -> ChildCalls],
            tail \in {<< >>, <<Signed(opcode.OP_JMP, -2)>>}} : h \in FrameHeaders}

InitFrame ==
  /\ CodecIdle
  /\ MemIdle
  /\ LibIdle
  /\ \E cs \in FrameSeqs :
       LET d == decode([k \in 1..Len(cs) |-> Encode(cs[k])])
       IN  /\ d.err = "none"
           /\ program = d.result
  /\ jit \in JitConfigs
  /\ vm = Boot
  /\ ivm = Boot
  /\ vh = NoStep
  /\ ih = NoStep

SpecFrame == InitFrame /\ [][NextVM]_vars

IsFrame(instr) == InstrKind(instr.data) \in {"block", "ntt"}

\* The machine is at a framing instruction whose children a fresh VM runs to
\* the end within the length the model follows.
AtFrame(m) ==
  /\ m.status = "running"
  /\ m.ip \in 0..(Len(program) - 1)
  /\ ~AtCap(program, m)
  /\ IsFrame(program[m.ip + 1])
  /\ Run(program[m.ip + 1].inner, Boot, SubJit(jit)).status # "capped"

FrameExecuted(m, m2) ==
  /\ m2.out = m.out \o Run(program[m.ip + 1].inner, Boot, SubJit(jit)).out
  /\ m2.ip = m.ip + 1
  /\ m2.stack = m.stack
  /\ m2.call_stack = m.call_stack
  /\ m2.cells = m.cells
  /\ m2.allocations = m.allocations
  /\ m2.io_in = m.io_in
  /\ m2.io_out = m.io_out

\* C13: executing a BLOCK or NTT framing instruction yields exactly the
\* output a fresh VM produces for the header's children, appended in order,
\* leaves the outer stack, memory, call stack, input queue and output log
\* unchanged, and advances the outer instruction pointer by exactly one.
C13_FrameEffect ==
  [][/\ (AtFrame(vm) /\ vm' # vm) => FrameExecuted(vm, vm')
     /\ (AtFrame(ivm) /\ ivm' # ivm) => FrameExecuted(ivm, ivm')]_vars

(***************************************************************************)
(* The spectral pre-pass of an NTT-framed region (vm.py, _ntt and _intt).  *)
(***************************************************************************)
MaxN == 6
MaxResidue == 2

\* pow(b, e, m)
RECURSIVE PowMod(_, _, _)
PowMod(b, e, m) == IF e = 0 THEN 1 % m ELSE (b * PowMod(b, e - 1, m)) % m

\* root = pow(NTT_ROOT, (T_MOD - 1) // n, T_MOD)
root(n) == PowMod(NTT_ROOT, (T_MOD - 1) \div n, T_MOD)

\* acc after the first k values of the inner loop for output index i.
RECURSIVE Accumulated(_, _, _, _)
Accumulated(values, w, i, k) ==
  IF k = 0 THEN 0
  ELSE (Accumulated(values, w, i, k - 1)
          + values[k] * PowMod(w, (i * (k - 1)) % Len(values), T_MOD)) % T_MOD

ntt(values) ==
  LET n == Len(values)
  IN  [i \in 1..n |-> Accumulated(values, root(n), i - 1, n)]

intt(values) ==
  LET n == Len(values)
      inv_root == PowMod(root(n), T_MOD - 2, T_MOD)
      inv_n == PowMod(n, T_MOD - 2, T_MOD)
  IN  [i \in 1..n |-> (Accumulated(values, inv_root, i - 1, n) * inv_n) % T_MOD]

Vectors == UNION {[1..n -> 0..MaxResidue] : n \in 1..MaxN}

InitNtt ==
  /\ CodecIdle /\ MemIdle /\ VMIdle /\ CacheIdle /\ RecIdle /\ PrimesIdle
  /\ tpc = "idle"
  /\ vec \in Vectors
  /\ tvec = vec

\* _ntt(vec)
Forward ==
  /\ tpc = "idle"
  /\ tvec' = ntt(vec)
  /\ tpc' = "forward"
  /\ UNCHANGED <<codecVars, memVars, vmVars, cacheVars, recVars, primeVars, vec>>

\* _intt(_ntt(vec))
Inverse ==
  /\ tpc = "forward"
  /\ tvec' = intt(tvec)
  /\ tpc' = "inverse"
  /\ UNCHANGED <<codecVars, memVars, vmVars, cacheVars, recVars, primeVars, vec>>

NextNtt == Forward \/ Inverse

SpecNtt == InitNtt /\ [][NextNtt]_vars

\* C14: for every N > 0 and every vector v of N residues modulo MOD, the
\* inverse transform of the forward transform of v, both with root
\* NTT_ROOT^((MOD-1) div N) mod MOD, is v.
C14_NttRoundTrip ==
  tpc = "inverse" => tvec = [i \in 1..Len(vec) |-> vec[i] % T_MOD]
(***************************************************************************)
(* InstructionCache (src/uor/cache.py): an OrderedDict under a lock.       *)
(* _data is a sequence of <<key, value>> pairs, oldest first.  The         *)
(* decode-time statistics do not influence get, put or clear and are left  *)
(* out.                                                                    *)
(***************************************************************************)
MaxSize == 2
MaxKey == 3
MaxCalls == 4

Threads == {"t1", "t2"}
CacheKeys == 1..MaxKey
\* Each thread puts a value of its own.
ValueFrom(t) == t
None == "None"

KeysOf(data) == {data[i][1] : i \in 1..Len(data)}

\* self._data[key]
ValueOf(data, key) == data[CHOOSE i \in 1..Len(data) : data[i][1] = key][2]

\* self._data.pop(key)
Popped(data, key) == SelectSeq(data, LAMBDA e : e[1] # key)

\* An eviction that removes the newest entry.
popitem_last(data) == SubSeq(data, 1, Len(data) - 1)

\* self._data.popitem(last=False)
popitem(data) == Tail(data)

\* self._data[key] = value for a key that is not in the dictionary
Inserted(data, key, value) == Append(data, <<key, value>>)

\* A lock that never blocks.
lock_ignored(c) == TRUE

\* with self._lock: the lock can be taken
lock_free(c) == c.lock = "free"

NoCacheCall ==
  [pc |-> "idle", op |-> "none", key |-> 0, value |-> None, ret |-> None,
   before |-> << >>]

NoPut == [by |-> {}, val |-> None]

\* InstructionCache(max_size)
InitCache ==
  /\ CodecIdle /\ MemIdle /\ VMIdle /\ NttIdle /\ RecIdle /\ PrimesIdle
  /\ \E n \in 1..MaxSize :
       cache = [max_size |-> n, data |-> << >>, lock |-> "free",
                hits |-> 0, misses |-> 0]
  /\ th = [t \in Threads |-> NoCacheCall]
  /\ ch = [calls |-> 0, gets |-> 0, recent |-> << >>,
           puts |-> [k \in CacheKeys |-> NoPut]]

Others == <<codecVars, memVars, vmVars, nttVars, recVars, primeVars>>

\* Thread t calls get(key), put(key, value) or clear().
CallCache(t, op, key, value) ==
  /\ th[t].pc = "idle"
  /\ ch.calls < MaxCalls
  /\ th' = [th EXCEPT ![t] = [NoCacheCall EXCEPT !.pc = "waiting", !.op = op,
                                               !.key = key, !.value = value]]
  /\ ch' = [ch EXCEPT !.calls = @ + 1,
                      !.gets = IF op = "get" THEN @ + 1 ELSE @]
  /\ UNCHANGED <<cache, Others>>

CallGet(t) == \E k \in CacheKeys : CallCache(t, "get", k, None)
CallPut(t) == \E k \in CacheKeys : CallCache(t, "put", k, ValueFrom(t))
CallClear(t) == CallCache(t, "clear", 0, None)

\* The keys by recency of use once the call of thread t has taken effect: a
\* put of the key, or a get that finds it, is its most recent use.
Used(t) ==
  LET c == th[t]
  IN  IF c.op = "clear" THEN << >>
      ELSE IF c.op = "put" \/ c.key \in KeysOf(cache.data)
      THEN Append(SelectSeq(ch.recent, LAMBDA k : k # c.key), c.key)
      ELSE ch.recent

\* The puts that stand once the call of thread t has taken effect.
Put(t) ==
  LET c == th[t]
  IN  IF c.op = "clear" THEN [k \in CacheKeys |-> NoPut]
      ELSE IF c.op = "put"
      THEN [ch.puts EXCEPT ![c.key] = [by |-> @.by \cup {t}, val |-> c.value]]
      ELSE ch.puts

\* with self._lock: thread t enters the body of its call.
Acquire(t) ==
  /\ th[t].pc = "waiting"
  /\ lock_free(cache)
  /\ cache' = [cache EXCEPT !.lock = t]
  /\ th' = [th EXCEPT ![t].pc = "locked", ![t].before = cache.data]
  /\ ch' = [ch EXCEPT !.recent = Used(t), !.puts = Put(t)]
  /\ UNCHANGED Others

\* get: if key in self._data: value = self._data.pop(key); else the miss is
\* counted and None returned.
GetLookup(t) ==
  /\ th[t].pc = "locked" /\ th[t].op = "get"
  /\ IF th[t].key \in KeysOf(cache.data)
     THEN /\ cache' = [cache EXCEPT !.data = Popped(@, th[t].key)]
          /\ th' = [th EXCEPT ![t].pc = "popped",
                              ![t].value = ValueOf(cache.data, th[t].key)]
     ELSE /\ cache' = [cache EXCEPT !.misses = @ + 1]
          /\ th' = [th EXCEPT ![t].pc = "done", ![t].ret = None]
  /\ UNCHANGED <<ch, Others>>

\* get: self._data[key] = value; self._hits += 1; return value
GetReinsert(t) ==
  /\ th[t].pc = "popped" /\ th[t].op = "get"
  /\ cache' = [cache EXCEPT !.data = Inserted(@, th[t].key, th[t].value),
                            !.hits = @ + 1]
  /\ th' = [th EXCEPT ![t].pc = "done", ![t].ret = th[t].value]
  /\ UNCHANGED <<ch, Others>>

\* put: the key's old entry is popped, or the oldest entry when the cache is
\* full, or nothing.
PutMakeRoom(t) ==
  /\ th[t].pc = "locked" /\ th[t].op = "put"
  /\ IF th[t].key \in KeysOf(cache.data)
     THEN /\ cache' = [cache EXCEPT !.data = Popped(@, th[t].key)]
          /\ ch' = ch
     ELSE IF Len(cache.data) >= cache.max_size
     THEN /\ cache' = [cache EXCEPT !.data = popitem(@)]
          /\ ch' = [ch EXCEPT !.puts =
                      [k \in CacheKeys |->
                         IF k \in KeysOf(popitem(cache.data)) \cup {th[t].key}
                         THEN @[k] ELSE NoPut]]
     ELSE UNCHANGED <<cache, ch>>
  /\ th' = [th EXCEPT ![t].pc = "room"]
  /\ UNCHANGED Others

\* put: self._data[key] = value
PutInsert(t) ==
  /\ th[t].pc = "room" /\ th[t].op = "put"
  /\ cache' = [cache EXCEPT !.data = Inserted(@, th[t].key, th[t].value)]
  /\ th' = [th EXCEPT ![t].pc = "done"]
  /\ UNCHANGED <<ch, Others>>

\* clear
ClearBody(t) ==
  /\ th[t].pc = "locked" /\ th[t].op = "clear"
  /\ cache' = [cache EXCEPT !.data = << >>, !.hits = 0, !.misses = 0]
  /\ th' = [th EXCEPT ![t].pc = "done"]
  /\ UNCHANGED <<ch, Others>>

\* The with block is left and the call returns.
Release(t) ==
  /\ th[t].pc = "done"
  /\ cache' = [cache EXCEPT !.lock = "free"]
  /\ th' = [th EXCEPT ![t].pc = "idle"]
  /\ UNCHANGED <<ch, Others>>

\* One thread calling get, put and clear in any order.
NextLru ==
  \E t \in {"t1"} :
    \/ CallGet(t) \/ CallPut(t) \/ CallClear(t) \/ Acquire(t)
    \/ GetLookup(t) \/ GetReinsert(t) \/ PutMakeRoom(t) \/ PutInsert(t)
    \/ ClearBody(t) \/ Release(t)

SpecLru == InitCache /\ [][NextLru]_vars

\* Several threads calling get and put.
NextCache ==
  \E t \in Threads :
    \/ CallGet(t) \/ CallPut(t) \/ Acquire(t)
    \/ GetLookup(t) \/ GetReinsert(t) \/ PutMakeRoom(t) \/ PutInsert(t)
    \/ Release(t)

SpecCache == InitCache /\ [][NextCache]_vars

InBody == {"locked", "popped", "room", "done"}

\* The least recently used of the keys the call of thread t found stored.
Lru(t) ==
  LET b == KeysOf(th[t].before)
      r == SelectSeq(ch.recent, LAMBDA k : k \in b)
  IN  r[1]

\* The keys stored when the call of thread t is complete, against the keys
\* it found.
CallEffect(t) ==
  LET c == th[t]
      b == KeysOf(c.before)
      now == KeysOf(cache.data)
  IN  c.pc = "done" =>
        CASE c.op = "get" -> now = b
          [] c.op = "put" /\ c.key \in b -> now = b
          [] c.op = "put" /\ c.key \notin b /\ Cardinality(b) >= cache.max_size ->
               now = (b \ {Lru(t)}) \cup {c.key}
          [] c.op = "put" /\ c.key \notin b /\ Cardinality(b) < cache.max_size ->
               now = b \cup {c.key}
          [] c.op = "clear" -> now = {}

\* C15: under any sequence of get, put and clear calls on a cache with
\* max_size >= 1 the stored entries never exceed max_size; a put of a new key
\* into a full cache removes exactly the least recently used key (used by a
\* get that hit it or by a put of it); a put of a present key and every get
\* remove nothing.
C15_LruEviction ==
  /\ Len(cache.data) <= cache.max_size
  /\ Cardinality(KeysOf(cache.data)) = Len(cache.data)
  /\ \A t \in Threads : CallEffect(t)

\* A put of a new key into a full cache of two entries is complete, after a
\* get hit has made the older entry the more recently used one.
C15_Witness ==
  LET c == th["t1"]
  IN  /\ c.pc = "done" /\ c.op = "put"
      /\ c.key \notin KeysOf(c.before)
      /\ Len(c.before) = 2 /\ cache.max_size = 2
      /\ cache.hits > 0
      /\ c.before[1][1] \notin KeysOf(cache.data)

\* The get calls that have not yet counted a hit or a miss.
PendingGets ==
  {t \in Threads : th[t].op = "get" /\ th[t].pc \in {"waiting", "locked", "popped"}}

\* A completed get of a key that the calling thread put, and that has not
\* been evicted since, returns the value the key holds (its latest put).
ReadsOwnPut(t) ==
  LET c == th[t]
  IN  (c.pc = "done" /\ c.op = "get" /\ t \in ch.puts[c.key].by) =>
        c.ret = ch.puts[c.key].val

\* C16: under every interleaving of get and put calls of several threads each
\* call takes effect atomically (no call runs while another is half done, and
\* a completed call has had its sequential effect), the capacity bound holds
\* in every state, a get of a key the same thread put and that was not
\* evicted returns its value, and hits + misses is the number of get calls.
C16_AtomicCalls ==
  /\ Cardinality({t \in Threads : th[t].pc \in InBody}) <= 1
  /\ \A t \in Threads : CallEffect(t) /\ ReadsOwnPut(t)
  /\ Len(cache.data) <= cache.max_size
  /\ cache.hits + cache.misses + Cardinality(PendingGets) = ch.gets

\* Thread t1 has read back the value it put while t2, which has put another
\* key in between, waits for the lock with a further call.
C16_Witness ==
  /\ th["t1"].pc = "done" /\ th["t1"].op = "get"
  /\ "t1" \in ch.puts[th["t1"].key].by
  /\ th["t1"].ret # None
  /\ th["t2"].pc = "waiting"
  /\ \E k \in CacheKeys \ {th["t1"].key} : "t2" \in ch.puts[k].by

(***************************************************************************)
(* _decode_single with the process-wide cache (decoder.py).  A decoded     *)
(* payload is a Python list: the cached DecodedInstruction and the records *)
(* handed out refer to it by identity.                                     *)
(***************************************************************************)
\* InstructionCache.get(key) as one call: the cache afterwards.
cache_get(c, key) ==
  IF key \in KeysOf(c.data)
  THEN [c EXCEPT !.data = Inserted(Popped(@, key), key, ValueOf(c.data, key)),
                 !.hits = @ + 1]
  ELSE [c EXCEPT !.misses = @ + 1]

\* InstructionCache.put(key, value) as one call.
cache_put(c, key, value) ==
  LET room == IF key \in KeysOf(c.data) THEN Popped(c.data, key)
              ELSE IF Len(c.data) >= c.max_size THEN popitem(c.data)
              ELSE c.data
  IN  [c EXCEPT !.data = Inserted(room, key, value)]

\* The chunks the caller decodes.
DecodedChunks ==
  {Encode(c) : c \in {WithOperand(opcode.OP_PUSH, 1), WithOperand(opcode.OP_PUSH, 2),
                      Bare(opcode.OP_ADD)}}

\* What a caller may do to a payload list it holds.
Mutations(data) ==
  (IF data # << >> THEN {SubSeq(data, 1, Len(data) - 1)} ELSE {})
  \cup (IF Len(data) < 3 THEN {Append(data, <<opcode.OP_PUSH, 1>>)} ELSE {})

InitDecodeCache ==
  /\ CodecIdle /\ MemIdle /\ VMIdle /\ NttIdle /\ PrimesIdle
  /\ \E n \in 1..MaxSize :
       cache = [max_size |-> n, data |-> << >>, lock |-> "free",
                hits |-> 0, misses |-> 0]
  /\ th = << >>
  /\ ch = << >>
  /\ RecIdle

\* _decode_single(chunk): a hit returns DecodedInstruction(data=cached.data);
\* a miss decodes, caches the instruction and returns
\* DecodedInstruction(data=instr.data).
DecodeSingle ==
  /\ cache.hits + cache.misses < MaxCalls
  /\ \E c \in DecodedChunks :
       /\ chunk' = c
       /\ IF c \in KeysOf(cache.data)
          THEN /\ cache' = cache_get(cache, c)
               /\ rec' = DecodedInstruction(ValueOf(cache.data, c), << >>)
               /\ decoded' = decoded
               /\ lists' = lists
          ELSE LET one == decode_single(c)
                   id == Len(lists) + 1
               IN  /\ decoded' = [err |-> one.err, result |-> << >>]
                   /\ IF one.err = "none"
                      THEN /\ lists' = Append(lists, one.data)
                           /\ cache' = cache_put(cache_get(cache, c), c, id)
                           /\ rec' = DecodedInstruction(id, << >>)
                      ELSE /\ cache' = cache_get(cache, c)
                           /\ UNCHANGED <<lists, rec>>
  /\ cpc' = "decoded"
  /\ UNCHANGED <<call, memVars, vmVars, nttVars, primeVars, th, ch>>

\* The caller changes the payload list of the record it holds.
MutatePayload ==
  /\ rec # NoRecord
  /\ \E d \in Mutations(lists[rec.data]) : lists' = [lists EXCEPT ![rec.data] = d]
  /\ cpc' = "mutated"
  /\ UNCHANGED <<call, chunk, decoded, memVars, vmVars, nttVars, primeVars,
                 cacheVars, rec>>

\* The caller attaches children to the record it holds (as decode does for a
\* framing header).
AttachChildren ==
  /\ rec # NoRecord
  /\ rec.inner = << >>
  /\ rec' = [rec EXCEPT !.inner = <<DecodedInstruction(rec.data, << >>)>>]
  /\ cpc' = "mutated"
  /\ UNCHANGED <<call, chunk, decoded, memVars, vmVars, nttVars, primeVars,
                 cacheVars, lists>>

NextDecodeCache == DecodeSingle \/ MutatePayload \/ AttachChildren

SpecDecodeCache == InitDecodeCache /\ [][NextDecodeCache]_vars

\* C17: a record decoded for a cached chunk is independent of the cached
\* copy: whatever the caller did to the payload list or the children of a
\* record it was given, a later decode of the same chunk returns the original
\* payload with no children.
C17_IndependentRecord ==
  (cpc = "decoded" /\ decoded.err = "none") =>
    /\ lists[rec.data] = decode_single(chunk).data
    /\ rec.inner = << >>
(***************************************************************************)
(* The shared tables of primes.py as they grow: _PRIMES, _PRIME_IDX and    *)
(* _sieve_limit (pt) and the factor cache (fc).  Lists are held by         *)
(* identity in lists, as above.                                            *)
(***************************************************************************)
MaxX == 25
MaxIdx == 3
MaxLibCalls == 2

\* _PRIMES = [2]; _PRIME_IDX = {2: 0}; _sieve_limit = 2
NewTable == [primes |-> <<2>>, idx |-> (2 :> 0), sieve_limit |-> 2]

isqrt(n) == CHOOSE r \in 0..n : r * r <= n /\ (r + 1) * (r + 1) > n

Max(a, b) == IF a > b THEN a ELSE b

\* for p in _PRIMES: if p * p > end: break -- the primes the segment is
\* sieved with, from position k on.
RECURSIVE Sieving(_, _, _)
Sieving(primes, k, end) ==
  IF k > Len(primes) \/ primes[k] * primes[k] > end THEN {}
  ELSE {primes[k]} \cup Sieving(primes, k + 1, end)

\* The index taken after the append instead of before it.
Appended_IndexAfter(t, n) ==
  [t EXCEPT !.idx = [m \in DOMAIN @ \cup {n} |-> IF m = n THEN Len(t.primes) + 1 ELSE @[m]],
            !.primes = Append(@, n)]

\* _PRIME_IDX[n] = len(_PRIMES); _PRIMES.append(n)
Appended(t, n) ==
  [t EXCEPT !.idx = [m \in DOMAIN @ \cup {n} |-> IF m = n THEN Len(t.primes) ELSE @[m]],
            !.primes = Append(@, n)]

\* for i, val in enumerate(seg): if val: ... for the numbers n..end that no
\* prime of ps has struck out.
RECURSIVE Collected(_, _, _, _)
Collected(t, n, end, ps) ==
  IF n > end THEN t
  ELSE IF \E p \in ps : n % p = 0 THEN Collected(t, n + 1, end, ps)
  ELSE Collected(Appended(t, n), n + 1, end, ps)

\* The while loop of segmented_sieve; one segment holds every limit reached.
Segment(t, limit) ==
  [Collected(t, t.sieve_limit + 1, limit, Sieving(t.primes, 1, limit))
     EXCEPT !.sieve_limit = limit]

RECURSIVE segmented_sieve(_, _)
segmented_sieve(t, limit) ==
  IF limit <= t.sieve_limit THEN t
  ELSE IF isqrt(limit) > t.sieve_limit
  THEN Segment(segmented_sieve(t, isqrt(limit)), limit)
  ELSE Segment(t, limit)

\* _extend_primes_to(idx), with limit the local variable of its loop.
RECURSIVE extend_primes_to(_, _, _)
extend_primes_to(t, idx, limit) ==
  IF Len(t.primes) > idx THEN t
  ELSE extend_primes_to(segmented_sieve(t, Max(limit * 2, 4)), idx, Max(limit * 2, 4))

\* The table after get_prime(idx); its value is the entry at idx.
Extended(t, idx) == extend_primes_to(t, idx, t.sieve_limit)

\* while x % p == 0: x //= p; cnt += 1
RECURSIVE Multiplicity(_, _)
Multiplicity(x, p) == IF x % p = 0 THEN 1 + Multiplicity(x \div p, p) ELSE 0

RECURSIVE Divided(_, _)
Divided(x, p) == IF x % p = 0 THEN Divided(x \div p, p) ELSE x

\* The while True loop of factor from index i on, on the table extended by
\* get_prime(i).
RECURSIVE TrialLoop(_, _, _, _)
TrialLoop(t, x, i, fac) ==
  IF t.primes[i + 1] * t.primes[i + 1] > x THEN [pt |-> t, x |-> x, fac |-> fac]
  ELSE IF x % t.primes[i + 1] = 0
  THEN TrialLoop(Extended(t, i + 1), Divided(x, t.primes[i + 1]), i + 1,
                 Append(fac, <<t.primes[i + 1], Multiplicity(x, t.primes[i + 1])>>))
  ELSE TrialLoop(Extended(t, i + 1), x, i + 1, fac)

\* if x > 1: the cofactor is recorded as a prime and closes the list.
Residual(r) ==
  IF r.x > 1
  THEN [pt |-> IF r.x \in DOMAIN r.pt.idx THEN r.pt ELSE Appended(r.pt, r.x),
        fac |-> Append(r.fac, <<r.x, 1>>)]
  ELSE [pt |-> r.pt, fac |-> r.fac]

\* factor(x) on a cache miss: the table afterwards and the list of pairs.
trial_factor(t, x) == Residual(TrialLoop(Extended(t, 0), x, 0, << >>))

IsPrime(p) == p > 1 /\ \A d \in 2..(p - 1) : p % d # 0

\* optimized_factorize on a miss: miller_rabin is exact on the numbers
\* followed and every choice of pollard_rho ends in the same sorted list of
\* prime factors.
RECURSIVE PrimePairs(_, _)
PrimePairs(n, p) ==
  IF n = 1 THEN << >>
  ELSE IF n % p = 0 THEN <<<<p, Multiplicity(n, p)>>>> \o PrimePairs(Divided(n, p), p + 1)
  ELSE PrimePairs(n, p + 1)

\* if p not in _PRIME_IDX: ... for the primes of the result, in order.
RECURSIVE Registered(_, _, _)
Registered(t, pairs, k) ==
  IF k > Len(pairs) THEN t
  ELSE IF pairs[k][1] \in DOMAIN t.idx THEN Registered(t, pairs, k + 1)
  ELSE Registered(Appended(t, pairs[k][1]), pairs, k + 1)

\* A result that is the cached list itself.
Shared(ls, id) == id

\* list(cached), list(flist): the identity of the list handed out, a new one.
Copied(ls, id) == Len(ls) + 1

\* The lists once list id has been handed out as list r.
HandedOut(ls, id, r) == IF r > Len(ls) THEN Append(ls, ls[id]) ELSE ls

NoLibCall == [op |-> "none", x |-> 0, n |-> 0, hit |-> FALSE,
              first |-> << >>, mutated |-> {}]

InitPrimes ==
  /\ CodecIdle /\ MemIdle /\ VMIdle /\ NttIdle /\ CacheIdle
  /\ lists = << >>
  /\ rec = NoRecord
  /\ pt = NewTable
  /\ fc = << >>
  /\ pcall = NoLibCall

Rest == <<codecVars, memVars, vmVars, nttVars, cacheVars>>

\* get_prime(idx)
GetPrime ==
  /\ pcall.n < MaxLibCalls
  /\ \E i \in 0..MaxIdx :
       /\ pt' = Extended(pt, i)
       /\ pcall' = [pcall EXCEPT !.op = "get_prime", !.x = i, !.n = @ + 1,
                                 !.hit = FALSE]
  /\ rec' = NoRecord
  /\ UNCHANGED <<lists, fc, Rest>>

\* The result of a factorization is cached as a FactorList and a copy of it
\* handed out.
Cached(x, r, op) ==
  /\ pt' = r.pt
  /\ fc' = [y \in DOMAIN fc \cup {x} |-> IF y = x THEN Len(lists) + 1 ELSE fc[y]]
  /\ lists' = HandedOut(Append(lists, r.fac), Len(lists) + 1,
                        Copied(Append(lists, r.fac), Len(lists) + 1))
  /\ rec' = DecodedInstruction(Copied(Append(lists, r.fac), Len(lists) + 1), << >>)
  /\ pcall' = [pcall EXCEPT !.op = op, !.x = x, !.n = @ + 1, !.hit = FALSE,
                            !.first = [y \in DOMAIN @ \cup {x} |->
                                         IF y = x THEN r.fac ELSE @[y]]]

\* cached = _FACTOR_CACHE.get(x); return list(cached)
CacheHit(x, op) ==
  /\ lists' = HandedOut(lists, fc[x], Copied(lists, fc[x]))
  /\ rec' = DecodedInstruction(Copied(lists, fc[x]), << >>)
  /\ pcall' = [pcall EXCEPT !.op = op, !.x = x, !.n = @ + 1, !.hit = TRUE]
  /\ UNCHANGED <<pt, fc>>

\* factor(x)
Factor ==
  /\ pcall.n < MaxLibCalls
  /\ \E x \in 2..MaxX :
       IF x \in DOMAIN fc THEN CacheHit(x, "factor")
       ELSE Cached(x, trial_factor(pt, x), "factor")
  /\ UNCHANGED Rest

\* optimized_factorize(n)
OptimizedFactorize ==
  /\ pcall.n < MaxLibCalls
  /\ \E x \in 2..MaxX :
       IF x \in DOMAIN fc THEN CacheHit(x, "optimized_factorize")
       ELSE Cached(x, [pt |-> Registered(pt, PrimePairs(x, 2), 1),
                       fac |-> PrimePairs(x, 2)], "optimized_factorize")
  /\ UNCHANGED Rest

\* The caller appends to, removes from or replaces a pair of the list it was
\* given.
MutateResult ==
  /\ rec # NoRecord
  /\ pcall.x \notin pcall.mutated
  /\ \E d \in {Append(lists[rec.data], <<2, 1>>),
               SubSeq(lists[rec.data], 2, Len(lists[rec.data])),
               [lists[rec.data] EXCEPT ![1] = <<29, 1>>]} :
       lists' = [lists EXCEPT ![rec.data] = d]
  /\ pcall' = [pcall EXCEPT !.op = "mutate", !.mutated = @ \cup {pcall.x}]
  /\ UNCHANGED <<rec, pt, fc, Rest>>

NextPrimes == GetPrime \/ Factor \/ OptimizedFactorize \/ MutateResult

SpecPrimes == InitPrimes /\ [][NextPrimes]_vars

\* C18: for every x >= 2, mutating the list factor(x) returned changes neither
\* the entry stored for x in the factor cache nor the result of a later
\* factor(x); every call returns a fresh list object.
C18_FreshFactorLists ==
  /\ \A x \in DOMAIN fc : lists[fc[x]] = pcall.first[x]
  /\ pcall.op = "factor" =>
       /\ lists[rec.data] = pcall.first[pcall.x]
       /\ rec.data = Len(lists)
       /\ \A x \in DOMAIN fc : fc[x] # rec.data

\* factor(x) has answered from the cache after the caller changed the list an
\* earlier call for x had returned.
C18_Witness ==
  /\ pcall.op = "factor"
  /\ pcall.hit
  /\ pcall.x \in pcall.mutated

RECURSIVE Product(_)
Product(f) ==
  IF f = << >> THEN 1
  ELSE Product(Tail(f)) * (IF f[1][2] = 0 THEN 1 ELSE f[1][1] * Product(<<<<f[1][1], f[1][2] - 1>>>>))

Factorization(f, x) ==
  /\ \A k \in 1..Len(f) : IsPrime(f[k][1]) /\ f[k][2] >= 1
  /\ \A k \in 1..(Len(f) - 1) : f[k][1] < f[k + 1][1]
  /\ Product(f) = x

\* C19: for every x >= 2, after any earlier get_prime, factor and
\* optimized_factorize calls, factor(x) returns pairs (p, e) with every p
\* prime, every e >= 1, the p strictly ascending and the product of p^e
\* equal to x.
C19_FactorIsFactorization ==
  pcall.op = "factor" => Factorization(lists[rec.data], pcall.x)

\* C20: the list factor(x) returns is the one it returns on the tables as
\* they are when the module is loaded, whatever calls came before.
C20_FactorDeterministic ==
  pcall.op = "factor" => lists[rec.data] = trial_factor(NewTable, pcall.x).fac

(***************************************************************************)
(* The prime tables under direct calls of segmented_sieve as well.         *)
(***************************************************************************)
\* segmented_sieve(limit), called by a client of the module
SegmentedSieve ==
  /\ pcall.n < MaxLibCalls
  /\ \E limit \in 0..MaxX :
       /\ pt' = segmented_sieve(pt, limit)
       /\ pcall' = [pcall EXCEPT !.op = "segmented_sieve", !.x = limit, !.n = @ + 1,
                                 !.hit = FALSE]
  /\ rec' = NoRecord
  /\ UNCHANGED <<lists, fc, Rest>>

NextTables == NextPrimes \/ SegmentedSieve

SpecTables == InitPrimes /\ [][NextTables]_vars

\* _PRIMES[_PRIME_IDX[p]] == p
AtClaimedIndex(t, p) ==
  /\ t.idx[p] < Len(t.primes)
  /\ t.primes[t.idx[p] + 1] = p

IsPrefix(s, t) == Len(s) <= Len(t) /\ SubSeq(t, 1, Len(s)) = s

\* C21: in every state reached by get_prime, segmented_sieve, factor and
\* optimized_factorize calls, every key p of _PRIME_IDX has
\* _PRIMES[_PRIME_IDX[p]] = p, and _PRIMES only grows: no entry is removed
\* or overwritten.
C21_ReverseMapConsistent ==
  /\ [](\A p \in DOMAIN pt.idx : AtClaimedIndex(pt, p))
  /\ [][IsPrefix(pt.primes, pt'.primes)]_vars

\* The sieve has appended a number the table already held, so that its key
\* was given a second index.
C21_Witness ==
  /\ pcall.op \in {"segmented_sieve", "get_prime"}
  /\ \E i, j \in 1..Len(pt.primes) : i < j /\ pt.primes[i] = pt.primes[j]

(***************************************************************************)
(* Threads calling get_prime and factor on the process-wide tables.  The   *)
(* module takes no lock, so a thread can be preempted between any two      *)
(* accesses of _PRIMES, _PRIME_IDX and _sieve_limit; a step below holds    *)
(* one such access (the scan "for p in _PRIMES" is taken as one read).     *)
(***************************************************************************)
MaxRaceIdx == 2
MaxRaceX == 5
SEGMENT_SIZE == 32768

IdleThread ==
  [pc |-> "idle", op |-> "none", arg |-> 0, idx |-> 0, limit |-> 0,
   calls |-> << >>, start |-> 0, end |-> 0, seg |-> << >>, n |-> 0,
   x |-> 0, i |-> 0, fac |-> << >>, got |-> << >>, sieved |-> 0]

InitRace ==
  /\ CodecIdle /\ MemIdle /\ VMIdle /\ NttIdle
  /\ cache = << >> /\ ch = << >>
  /\ th = [t \in Threads |-> IdleThread]
  /\ lists = << >>
  /\ rec = NoRecord
  /\ pt = NewTable
  /\ fc = << >>
  /\ pcall = << >>

RaceRest == <<codecVars, memVars, vmVars, nttVars, cache, ch, rec, pcall>>

Min(a, b) == IF a < b THEN a ELSE b

\* for i, val in enumerate(seg): if val -- the numbers of start..end that
\* no prime of ps has struck out, in order.
RECURSIVE Survivors(_, _, _)
Survivors(n, end, ps) ==
  IF n > end THEN << >>
  ELSE IF \E p \in ps : n % p = 0 THEN Survivors(n + 1, end, ps)
  ELSE <<n>> \o Survivors(n + 1, end, ps)

\* The limit of the segmented_sieve call the thread is in.
Limit(s) == s.calls[Len(s.calls)]

\* return from segmented_sieve: to the caller's "start = _sieve_limit + 1"
\* or to the loop of _extend_primes_to.
Returned(s) ==
  [s EXCEPT !.calls = SubSeq(@, 1, Len(@) - 1),
            !.pc = IF Len(s.calls) > 1 THEN "start" ELSE "loop"]

\* A thread calls get_prime(idx) or factor(x); factor looks x up in
\* _FACTOR_CACHE first.
ThreadCall(t) ==
  /\ th[t].pc = "idle"
  /\ \/ \E idx \in 0..MaxRaceIdx :
          th' = [th EXCEPT ![t] = [@ EXCEPT !.op = "get_prime", !.arg = idx,
                                            !.idx = idx, !.pc = "extend"]]
     \/ \E x \in 2..MaxRaceX :
          th' = [th EXCEPT ![t] =
                   IF x \in DOMAIN fc
                   THEN [@ EXCEPT !.op = "factor", !.arg = x, !.fac = lists[fc[x]],
                                  !.pc = "done"]
                   ELSE [@ EXCEPT !.op = "factor", !.arg = x, !.x = x, !.i = 0,
                                  !.idx = 0, !.pc = "extend"]]
  /\ UNCHANGED <<pt, fc, lists, RaceRest>>

\* limit = _sieve_limit
ExtendEntry(t) ==
  /\ th[t].pc = "extend"
  /\ th' = [th EXCEPT ![t] = [@ EXCEPT !.limit = pt.sieve_limit, !.pc = "loop"]]
  /\ UNCHANGED <<pt, fc, lists, RaceRest>>

\* while len(_PRIMES) <= idx: limit = max(limit * 2, 4); segmented_sieve(limit)
ExtendLoop(t) ==
  /\ th[t].pc = "loop"
  /\ th' = [th EXCEPT ![t] =
              IF Len(pt.primes) <= th[t].idx
              THEN [@ EXCEPT !.limit = Max(@ * 2, 4),
                             !.calls = <<Max(th[t].limit * 2, 4)>>, !.pc = "sieve"]
              ELSE [@ EXCEPT !.pc = "read"]]
  /\ UNCHANGED <<pt, fc, lists, RaceRest>>

\* if limit <= _sieve_limit: return
SieveEntry(t) ==
  /\ th[t].pc = "sieve"
  /\ th' = [th EXCEPT ![t] =
              IF Limit(th[t]) <= pt.sieve_limit THEN Returned(th[t])
              ELSE [@ EXCEPT !.pc = "root"]]
  /\ UNCHANGED <<pt, fc, lists, RaceRest>>

\* root = isqrt(limit); if root > _sieve_limit: segmented_sieve(root, ...)
SieveRoot(t) ==
  /\ th[t].pc = "root"
  /\ th' = [th EXCEPT ![t] =
              IF isqrt(Limit(th[t])) > pt.sieve_limit
              THEN [@ EXCEPT !.calls = Append(@, isqrt(Limit(th[t]))), !.pc = "sieve"]
              ELSE [@ EXCEPT !.pc = "start"]]
  /\ UNCHANGED <<pt, fc, lists, RaceRest>>

\* start = _sieve_limit + 1
SieveStart(t) ==
  /\ th[t].pc = "start"
  /\ th' = [th EXCEPT ![t] = [@ EXCEPT !.start = pt.sieve_limit + 1, !.pc = "while"]]
  /\ UNCHANGED <<pt, fc, lists, RaceRest>>

\* The segment of start..end with the multiples of the primes in the table
\* struck out.
Sieved(s, primes) ==
  Survivors(s.start, Min(s.start + SEGMENT_SIZE - 1, Limit(s)),
            Sieving(primes, 1, Min(s.start + SEGMENT_SIZE - 1, Limit(s))))

\* while start <= limit: end = ...; seg = ...; for p in _PRIMES: ...
SieveSegment(t) ==
  /\ th[t].pc = "while"
  /\ th' = [th EXCEPT ![t] =
              IF th[t].start <= Limit(th[t])
              THEN [@ EXCEPT !.end = Min(th[t].start + SEGMENT_SIZE - 1, Limit(th[t])),
                             !.seg = Sieved(th[t], pt.primes),
                             !.pc = IF Sieved(th[t], pt.primes) = << >>
                                    THEN "limit" ELSE "collect"]
              ELSE Returned(th[t])]
  /\ UNCHANGED <<pt, fc, lists, RaceRest>>

\* _PRIME_IDX[n] = len(_PRIMES)
Indexed(t, n) ==
  [t EXCEPT !.idx = [m \in DOMAIN @ \cup {n} |-> IF m = n THEN Len(t.primes) ELSE @[m]]]

CollectIndex(t) ==
  /\ th[t].pc = "collect"
  /\ pt' = Indexed(pt, Head(th[t].seg))
  /\ th' = [th EXCEPT ![t] = [@ EXCEPT !.n = Head(th[t].seg), !.pc = "append"]]
  /\ UNCHANGED <<fc, lists, RaceRest>>

\* _PRIMES.append(n)
CollectAppend(t) ==
  /\ th[t].pc = "append"
  /\ pt' = [pt EXCEPT !.primes = Append(@, th[t].n)]
  /\ th' = [th EXCEPT ![t] = [@ EXCEPT !.seg = Tail(@),
                                        !.pc = IF Tail(th[t].seg) = << >>
                                               THEN "limit" ELSE "collect"]]
  /\ UNCHANGED <<fc, lists, RaceRest>>

\* _sieve_limit = end; start = end + 1
SieveLimit(t) ==
  /\ th[t].pc = "limit"
  /\ pt' = [pt EXCEPT !.sieve_limit = th[t].end]
  /\ th' = [th EXCEPT ![t] = [@ EXCEPT !.start = th[t].end + 1,
                                        !.sieved = Max(@, th[t].end),
                                        !.pc = "while"]]
  /\ UNCHANGED <<fc, lists, RaceRest>>

\* The body of factor's loop once p = get_prime(i) is known.
Tried(s, p) ==
  IF p * p > s.x
  THEN [s EXCEPT !.got = <<p, s.idx>>, !.pc = IF s.x > 1 THEN "residual" ELSE "store"]
  ELSE [s EXCEPT !.got = <<p, s.idx>>,
                 !.fac = IF s.x % p = 0 THEN Append(@, <<p, Multiplicity(s.x, p)>>) ELSE @,
                 !.x = Divided(@, p), !.i = @ + 1, !.idx = s.i + 1, !.pc = "extend"]

\* return _PRIMES[idx]
ReadPrime(t) ==
  /\ th[t].pc = "read"
  /\ th' = [th EXCEPT ![t] =
              IF th[t].op = "get_prime"
              THEN [@ EXCEPT !.got = <<pt.primes[th[t].idx + 1], th[t].idx>>, !.pc = "done"]
              ELSE Tried(th[t], pt.primes[th[t].idx + 1])]
  /\ UNCHANGED <<pt, fc, lists, RaceRest>>

\* if x > 1: if x not in _PRIME_IDX
ResidualCheck(t) ==
  /\ th[t].pc = "residual"
  /\ th' = [th EXCEPT ![t] =
              IF th[t].x \in DOMAIN pt.idx
              THEN [@ EXCEPT !.fac = Append(@, <<th[t].x, 1>>), !.pc = "store"]
              ELSE [@ EXCEPT !.pc = "res_index"]]
  /\ UNCHANGED <<pt, fc, lists, RaceRest>>

\* _PRIME_IDX[x] = len(_PRIMES)
ResidualIndex(t) ==
  /\ th[t].pc = "res_index"
  /\ pt' = Indexed(pt, th[t].x)
  /\ th' = [th EXCEPT ![t] = [@ EXCEPT !.pc = "res_append"]]
  /\ UNCHANGED <<fc, lists, RaceRest>>

\* _PRIMES.append(x); fac.append((x, 1))
ResidualAppend(t) ==
  /\ th[t].pc = "res_append"
  /\ pt' = [pt EXCEPT !.primes = Append(@, th[t].x)]
  /\ th' = [th EXCEPT ![t] = [@ EXCEPT !.fac = Append(@, <<th[t].x, 1>>), !.pc = "store"]]
  /\ UNCHANGED <<fc, lists, RaceRest>>

\* _FACTOR_CACHE[orig] = flist; _FACTOR_STRONG[orig] = flist
CacheStore(t) ==
  /\ th[t].pc = "store"
  /\ lists' = Append(lists, th[t].fac)
  /\ fc' = [y \in DOMAIN fc \cup {th[t].arg} |->
              IF y = th[t].arg THEN Len(lists) + 1 ELSE fc[y]]
  /\ th' = [th EXCEPT ![t] = [@ EXCEPT !.pc = "done"]]
  /\ UNCHANGED <<pt, RaceRest>>

NextRace ==
  \E t \in Threads :
    \/ ThreadCall(t) \/ ExtendEntry(t) \/ ExtendLoop(t)
    \/ SieveEntry(t) \/ SieveRoot(t) \/ SieveStart(t) \/ SieveSegment(t)
    \/ CollectIndex(t) \/ CollectAppend(t) \/ SieveLimit(t)
    \/ ReadPrime(t) \/ ResidualCheck(t) \/ ResidualIndex(t) \/ ResidualAppend(t)
    \/ CacheStore(t)

SpecRace == InitRace /\ [][NextRace]_vars

Quiescent == \A t \in Threads : th[t].pc \in {"idle", "done"}

NoDuplicate(primes) ==
  \A i, j \in 1..Len(primes) : i < j => primes[i] # primes[j]

\* _sieve_limit is neither ahead of the primes in the table nor behind what
\* a sieve run has covered.
LimitInStep ==
  /\ \A p \in 2..pt.sieve_limit : IsPrime(p) => \E k \in 1..Len(pt.primes) : pt.primes[k] = p
  /\ \A t \in Threads : th[t].sieved <= pt.sieve_limit

Observed(t) ==
  th[t].op = "get_prime" /\ th[t].pc = "done"
  => /\ pt.primes[th[t].got[2] + 1] = th[t].got[1]
     /\ pt.idx[th[t].got[1]] = th[t].got[2]

\* C22: when threads call get_prime and factor concurrently, every
\* interleaving leaves the tables consistent: no prime is appended twice,
\* _sieve_limit is in step with the primes appended, and every
\* (prime, index) pair a thread has observed has _PRIMES[index] = prime and
\* _PRIME_IDX[prime] = index.
C22_ConcurrentTablesConsistent ==
  Quiescent =>
    /\ NoDuplicate(pt.primes)
    /\ LimitInStep
    /\ \A p \in DOMAIN pt.idx : AtClaimedIndex(pt, p)
    /\ \A t \in Threads : Observed(t)

(***************************************************************************)
(* decode on the tables as they stand: the prime table and the factor      *)
(* cache of primes.py and the instruction cache of decoder.py, all         *)
(* process-wide.  A chunk is a bag of prime factors; factor divides it by  *)
(* the entries of _PRIMES in table order, prime or not.                    *)
(***************************************************************************)
MaxWarmCalls == 3
ValueCap == 4096

\* min(p ** e, cap)
RECURSIVE CappedPow(_, _, _)
CappedPow(p, e, cap) == IF e = 0 THEN 1 ELSE Min(cap, p * CappedPow(p, e - 1, cap))

\* The integer a bag stands for, up to cap.
RECURSIVE Magnitude(_, _)
Magnitude(x, cap) ==
  IF DOMAIN x = {} THEN 1
  ELSE Min(cap, CappedPow(SetMin(DOMAIN x), x[SetMin(DOMAIN x)], cap)
                  * Magnitude([q \in DOMAIN x \ {SetMin(DOMAIN x)} |-> x[q]], cap))

\* x % n == 0 for a table entry n with prime factors pairs
Divisible(x, pairs) ==
  \A k \in 1..Len(pairs) : pairs[k][1] \in DOMAIN x /\ x[pairs[k][1]] >= pairs[k][2]

\* x //= n
RECURSIVE Quotient(_, _, _)
Quotient(x, pairs, k) ==
  IF k > Len(pairs) THEN x
  ELSE Quotient([q \in {r \in DOMAIN x : r # pairs[k][1] \/ x[r] > pairs[k][2]} |->
                   IF q = pairs[k][1] THEN x[q] - pairs[k][2] ELSE x[q]],
                pairs, k + 1)

\* while x % p == 0: x //= p; cnt += 1
RECURSIVE Stripped(_, _, _)
Stripped(x, pairs, cnt) ==
  IF Divisible(x, pairs) THEN Stripped(Quotient(x, pairs, 1), pairs, cnt + 1)
  ELSE [x |-> x, cnt |-> cnt]

\* The while True loop of factor on a chunk, from index i on.
RECURSIVE ChunkTrialLoop(_, _, _, _)
ChunkTrialLoop(t, x, i, fac) ==
  IF t.primes[i + 1] * t.primes[i + 1] > Magnitude(x, t.primes[i + 1] * t.primes[i + 1] + 1)
  THEN [pt |-> t, x |-> x, fac |-> fac]
  ELSE IF Divisible(x, PrimePairs(t.primes[i + 1], 2))
  THEN ChunkTrialLoop(Extended(t, i + 1),
                      Stripped(x, PrimePairs(t.primes[i + 1], 2), 0).x, i + 1,
                      Append(fac, <<t.primes[i + 1],
                                    Stripped(x, PrimePairs(t.primes[i + 1], 2), 0).cnt>>))
  ELSE ChunkTrialLoop(Extended(t, i + 1), x, i + 1, fac)

\* if x > 1: ... with the cofactor as an integer (it is below the square of
\* the last table entry tried, and below ValueCap in the runs followed)
ChunkResidual(r) ==
  IF DOMAIN r.x # {}
  THEN [pt |-> IF Magnitude(r.x, ValueCap) \in DOMAIN r.pt.idx THEN r.pt
               ELSE Appended(r.pt, Magnitude(r.x, ValueCap)),
        fac |-> Append(r.fac, <<Magnitude(r.x, ValueCap), 1>>)]
  ELSE [pt |-> r.pt, fac |-> r.fac]

\* factor(chunk) on a miss of the factor cache
chunk_factor(t, x) == ChunkResidual(ChunkTrialLoop(Extended(t, 0), x, 0, << >>))

\* xor ^= _PRIME_IDX[p] * e
RECURSIVE XorIn(_, _)
XorIn(t, data) ==
  IF data = << >> THEN 0
  ELSE BitXor(t.idx[data[1][1]] * data[1][2], XorIn(t, Tail(data)))

\* The process-wide state: tables, caches and the lists they hold.
ColdState(n) ==
  [pt |-> NewTable, fc |-> << >>, lists |-> << >>,
   cache |-> [max_size |-> n, data |-> << >>, lock |-> "free", hits |-> 0, misses |-> 0]]

\* factor(chunk): the state afterwards and the list returned
Factored(s, c) ==
  IF c \in DOMAIN s.fc THEN [s |-> s, fac |-> s.lists[s.fc[c]]]
  ELSE [s |-> [s EXCEPT !.pt = chunk_factor(s.pt, c).pt,
                        !.lists = Append(@, chunk_factor(s.pt, c).fac),
                        !.fc = [y \in DOMAIN @ \cup {c} |->
                                  IF y = c THEN Len(s.lists) + 1 ELSE @[y]]],
        fac |-> chunk_factor(s.pt, c).fac]

\* The checks of _decode_single on the factor list, with the state after
\* get_prime(xor).
Checked(s, c, peeled) ==
  IF peeled.err # "none" THEN [s |-> s, err |-> peeled.err, data |-> << >>]
  ELSE IF peeled.chk = NoPrime THEN [s |-> s, err |-> "Checksum missing", data |-> << >>]
  ELSE IF peeled.chk # Extended(s.pt, XorIn(s.pt, peeled.data)).primes[XorIn(s.pt, peeled.data) + 1]
  THEN [s |-> [s EXCEPT !.pt = Extended(@, XorIn(s.pt, peeled.data))],
        err |-> "Checksum mismatch", data |-> << >>]
  ELSE [s |-> [s EXCEPT !.pt = Extended(@, XorIn(s.pt, peeled.data)),
                        !.lists = Append(@, peeled.data),
                        !.cache = cache_put(@, c, Len(s.lists) + 1)],
        err |-> "none", data |-> peeled.data]

Missed(f, c) == Checked(f.s, c, PeelLoop(f.fac, 1, NoPrime, << >>))

\* _decode_single(chunk) on the state s
decode_single_in(s, c) ==
  IF c \in KeysOf(s.cache.data)
  THEN [s |-> [s EXCEPT !.cache = cache_get(@, c)], err |-> "none",
        data |-> s.lists[ValueOf(s.cache.data, c)]]
  ELSE Missed(Factored([s EXCEPT !.cache = cache_get(@, c)], c), c)

\* decode(chunks) on the state s
RECURSIVE DecodeLoopIn(_, _, _, _)
Framed(one, chunks, ip, result, lp) ==
  IF lp = NoPrime THEN [s |-> one.s, err |-> "StopIteration", result |-> << >>]
  ELSE LET sub == DecodeLoopIn(one.s, Slice(chunks, ip + 1, ip + 1 + one.s.pt.idx[lp]),
                               0, << >>)
       IN  IF sub.err # "none" THEN sub
           ELSE DecodeLoopIn(sub.s, chunks, ip + 1 + one.s.pt.idx[lp],
                             Append(result, DecodedInstruction(one.data, sub.result)))

Decoded(one, chunks, ip, result) ==
  IF one.err # "none" THEN [s |-> one.s, err |-> one.err, result |-> << >>]
  ELSE IF HasPair(one.data, BLOCK_TAG, 7)
  THEN Framed(one, chunks, ip, result, LengthPrime(one.data, BLOCK_TAG))
  ELSE IF HasPair(one.data, NTT_TAG, 4)
  THEN Framed(one, chunks, ip, result, LengthPrime(one.data, NTT_TAG))
  ELSE DecodeLoopIn(one.s, chunks, ip + 1,
                    Append(result, DecodedInstruction(one.data, << >>)))

DecodeLoopIn(s, chunks, ip, result) ==
  IF ip >= Len(chunks) THEN [s |-> s, err |-> "none", result |-> result]
  ELSE Decoded(decode_single_in(s, chunks[ip + 1]), chunks, ip, result)

\* The handlers read an operand as _PRIME_IDX[p]: the instruction with each
\* operand prime replaced by the prime that has this index in a table in
\* order.
Reindexed(t, instr) ==
  [instr EXCEPT !.data = [k \in 1..Len(instr.data) |->
     IF instr.data[k][2] = 5 /\ instr.data[k][1] # NEG_FLAG
     THEN <<get_prime(t.idx[instr.data[k][1]]), 5>> ELSE instr.data[k]]]

\* decode(chunks) and VM().execute(...) on the state s: the state afterwards,
\* and the output or the error.
Ran(d) ==
  IF d.err # "none" THEN [s |-> d.s, err |-> d.err, out |-> << >>]
  ELSE [s |-> d.s,
        err |-> Run([k \in 1..Len(d.result) |-> Reindexed(d.s.pt, d.result[k])],
                    Boot, [available |-> FALSE, threshold |-> JIT_THRESHOLD, native |-> FALSE]).err.kind,
        out |-> Run([k \in 1..Len(d.result) |-> Reindexed(d.s.pt, d.result[k])],
                    Boot, [available |-> FALSE, threshold |-> JIT_THRESHOLD, native |-> FALSE]).out]

DecodeAndRun(s, chunks) == Ran(DecodeLoopIn(s, chunks, 0, << >>))

\* The programs decoded and run, and the integers decoded beside them:
\* chunks of the encoders and integers that are no chunk.
WarmPrograms ==
  {<<chunk_push(1), chunk_bare(opcode.OP_PRINT)>>,
   <<chunk_push(2), chunk_push(1), chunk_bare(opcode.OP_ADD), chunk_bare(opcode.OP_PRINT)>>,
   <<chunk_bare(opcode.OP_ADD)>>,
   <<Pow(3, 1)>>, <<Pow(5, 2)>>, <<Pow(2, 6)>>}

InitWarm ==
  /\ MemIdle /\ VMIdle /\ NttIdle
  /\ cpc = "idle" /\ call = NoCall /\ chunk = << >> /\ decoded = NoDecoded
  /\ \E n \in 1..MaxSize :
       /\ cache = ColdState(n).cache
  /\ th = << >> /\ ch = << >>
  /\ lists = << >>
  /\ rec = NoRecord
  /\ pt = NewTable
  /\ fc = << >>
  /\ pcall = [NoLibCall EXCEPT !.op = "decode"]

\* decode(chunks) and a run of the result, in the process as it stands
DecodeRun ==
  /\ pcall.n < MaxWarmCalls
  /\ \E P \in WarmPrograms :
       /\ chunk' = P
       /\ decoded' = [err |-> DecodeAndRun([pt |-> pt, fc |-> fc, lists |-> lists,
                                            cache |-> cache], P).err,
                      result |-> DecodeAndRun([pt |-> pt, fc |-> fc, lists |-> lists,
                                               cache |-> cache], P).out]
       /\ pt' = DecodeAndRun([pt |-> pt, fc |-> fc, lists |-> lists, cache |-> cache], P).s.pt
       /\ fc' = DecodeAndRun([pt |-> pt, fc |-> fc, lists |-> lists, cache |-> cache], P).s.fc
       /\ lists' = DecodeAndRun([pt |-> pt, fc |-> fc, lists |-> lists, cache |-> cache], P).s.lists
       /\ cache' = DecodeAndRun([pt |-> pt, fc |-> fc, lists |-> lists, cache |-> cache], P).s.cache
  /\ cpc' = "decoded"
  /\ pcall' = [pcall EXCEPT !.n = @ + 1]
  /\ UNCHANGED <<call, memVars, vmVars, nttVars, th, ch, rec>>

NextWarm == DecodeRun

SpecWarm == InitWarm /\ [][NextWarm]_vars

MaxRejectCalls == 3

\* The integers handed to _decode_single: 3 (no checksum), 3^7 * 5 (the
\* checksum 3 is not prime_{1*1 ^ 2*1} = 7), 2^6 * 3^6 (two checksums),
\* 3^4 * 11^6 = chunk_add(), and 2^6 * 7^7 * 79 (BLOCK_TAG^7 beside the
\* checksum 2 = prime_{3*7 ^ 21*1}).
RejectChunks ==
  {Pow(3, 1), Pow(3, 7) (+) Pow(5, 1), Pow(2, 6) (+) Pow(3, 6),
   chunk_bare(opcode.OP_ADD), Pow(2, 6) (+) Pow(7, 7) (+) Pow(79, 1)}

InitReject ==
  /\ InitWarm
  /\ pcall.op = "decode"

\* _decode_single(c)
DecodeOne ==
  /\ pcall.n < MaxRejectCalls
  /\ \E c \in RejectChunks :
       /\ chunk' = <<c>>
       /\ decoded' = [err |-> decode_single_in([pt |-> pt, fc |-> fc, lists |-> lists,
                                                cache |-> cache], c).err,
                      result |-> decode_single_in([pt |-> pt, fc |-> fc, lists |-> lists,
                                                   cache |-> cache], c).data]
       /\ pt' = decode_single_in([pt |-> pt, fc |-> fc, lists |-> lists, cache |-> cache], c).s.pt
       /\ fc' = decode_single_in([pt |-> pt, fc |-> fc, lists |-> lists, cache |-> cache], c).s.fc
       /\ lists' = decode_single_in([pt |-> pt, fc |-> fc, lists |-> lists, cache |-> cache], c).s.lists
       /\ cache' = decode_single_in([pt |-> pt, fc |-> fc, lists |-> lists, cache |-> cache], c).s.cache
  /\ cpc' = "decoded"
  /\ pcall' = [pcall EXCEPT !.n = @ + 1]
  /\ UNCHANGED <<call, memVars, vmVars, nttVars, th, ch, rec>>

NextReject == DecodeOne

SpecReject == InitReject /\ [][NextReject]_vars

MaxCallLen == 4

\* Encoder calls the subroutine programs are assembled from.
CallCalls ==
  {Signed(opcode.OP_CALL, 1), Signed(opcode.OP_CALL, -3), Bare(opcode.OP_RET),
   Signed(opcode.OP_JMP, -3), WithOperand(opcode.OP_PUSH, 1), Bare(opcode.OP_PRINT)}

InitCall == InitVM(CallCalls, MaxCallLen)

SpecCall == InitCall /\ [][NextVM]_vars

\* Machine m is about to execute an instruction with opcode op.
AtOp(m, op) ==
  /\ m.status = "running"
  /\ ~AtCap(program, m)
  /\ m.ip >= 0 /\ m.ip < Len(program)
  /\ InstrKind(PyIndex(program, m.ip).data) = "op"
  /\ OpcodeOf(PyIndex(program, m.ip).data) = op

\* The iteration that executed RET took machine m to m2.
RetEffect(m, m2) ==
  AtOp(m, opcode.OP_RET) /\ m2 # m =>
    /\ m2.status = "running"
    /\ IF m.call_stack # << >>
       THEN /\ m2.ip = m.call_stack[Len(m.call_stack)]
            /\ m2.call_stack = SubSeq(m.call_stack, 1, Len(m.call_stack) - 1)
       ELSE /\ m2.ip = m.ip + 1
            /\ m2.stack = m.stack
            /\ m2.cells = m.cells
            /\ m2.allocations = m.allocations
            /\ m2.call_stack = m.call_stack
            /\ m2.io_in = m.io_in
            /\ m2.io_out = m.io_out

\* The iteration that executed CALL at m.ip left m.ip + 1 on the call stack.
CallPushes(m, m2) ==
  AtOp(m, opcode.OP_CALL) /\ m2 # m /\ m2.status = "running" =>
    m2.call_stack = Append(m.call_stack, m.ip + 1)

\* C25: RET with a non-empty call stack pops the top return address and sets
\* IP to it, CALL at IP i having pushed i + 1, so that the matching RET
\* resumes at i + 1 with the call stack as deep as before the CALL; RET
\* with an empty call stack changes neither operand stack, memory, call
\* stack nor IO queues, and execution continues at the next instruction.
C25_CallRet ==
  [][/\ RetEffect(vm, vm') /\ CallPushes(vm, vm')
     /\ RetEffect(ivm, ivm') /\ CallPushes(ivm, ivm')]_vars

\* C25 for the interpreter alone.
CallRetInterpreted ==
  [][RetEffect(ivm, ivm') /\ CallPushes(ivm, ivm')]_vars

(***************************************************************************)
(* SegmentedMemory.load, store and load_code (src/uor/memory.py) called on *)
(* the memory of a VM whose input queue is fed from outside, beside the    *)
(* INPUT handler of the VM (src/vm.py:395-400).                            *)
(***************************************************************************)
MaxAccessOps == 4

\* Addresses in every segment, the first and the last code address, and one
\* address below and one above all segments.
AccessAddrs ==
  {CODE_START - 1, CODE_START, CODE_START + CODE_SIZE - 1, DATA_START, HEAP_START,
   STACK_START, MMIO_IN, MMIO_OUT, MMIO_OUT + 1}

AccessVals == {1, 2}

\* Programs of every length up to one more than the code segment holds.
CodeLists == {[k \in 1..n |-> I(k + 2)] : n \in 0..(CODE_SIZE + 1)}

\* SegmentedMemory.load_code: [m, err].
load_code(m, code) ==
  IF Len(code) > CODE_SIZE THEN [m |-> m, err |-> "Program too large for code segment"]
  ELSE [m |-> [m EXCEPT !.code = code], err |-> ""]

\* The last call: its operation, address, error and value returned, the
\* machine before it, and the history of the input queue: fed holds every
\* value appended, got every value an INPUT or a load of MMIO-in returned,
\* with the means and the number of values fed by then.
NoAccess ==
  [op |-> "none", pre |-> NewVM, err |-> "", n |-> 0, addr |-> 0, val |-> I(0),
   fed |-> << >>, got |-> << >>]

InitAccess ==
  /\ CodecIdle /\ VMIdle /\ LibIdle
  /\ mvm = NewVM
  /\ mlast = NoAccess

Read(v, by) == [val |-> v, by |-> by, fed |-> Len(mlast.fed)]

\* mem.load(addr)
Load ==
  /\ mlast.n < MaxAccessOps
  /\ \E addr \in AccessAddrs :
       /\ mvm' = load(mvm, addr).m
       /\ mlast' = [mlast EXCEPT !.op = "load", !.pre = mvm, !.addr = addr, !.n = @ + 1,
                                 !.err = load(mvm, addr).err,
                                 !.val = load(mvm, addr).val,
                                 !.got = IF addr = MMIO_IN /\ load(mvm, addr).err = ""
                                         THEN Append(@, Read(load(mvm, addr).val, "load")) ELSE @]
  /\ UNCHANGED <<codecVars, vmVars, libVars>>

\* mem.store(addr, value)
Store ==
  /\ mlast.n < MaxAccessOps
  /\ \E addr \in AccessAddrs, v \in AccessVals :
       /\ mvm' = store(mvm, addr, I(v)).m
       /\ mlast' = [mlast EXCEPT !.op = "store", !.pre = mvm, !.addr = addr, !.n = @ + 1,
                                 !.err = store(mvm, addr, I(v)).err, !.val = I(v)]
  /\ UNCHANGED <<codecVars, vmVars, libVars>>

\* mem.load_code(code)
LoadCode ==
  /\ mlast.n < MaxAccessOps
  /\ \E code \in CodeLists :
       /\ mvm' = load_code(mvm, code).m
       /\ mlast' = [mlast EXCEPT !.op = "load_code", !.pre = mvm, !.n = @ + 1,
                                 !.err = load_code(mvm, code).err]
  /\ UNCHANGED <<codecVars, vmVars, libVars>>

\* vm.io_in.append(v), by the VM's owner
Feed ==
  /\ mlast.n < MaxAccessOps
  /\ \E v \in AccessVals :
       /\ mvm' = [mvm EXCEPT !.io_in = Append(@, I(v))]
       /\ mlast' = [mlast EXCEPT !.op = "feed", !.pre = mvm, !.n = @ + 1, !.err = "",
                                 !.fed = Append(@, I(v))]
  /\ UNCHANGED <<codecVars, vmVars, libVars>>

\* The handler of INPUT: the value it pushed is the value delivered.
Input ==
  /\ mlast.n < MaxAccessOps
  /\ mvm' = op_input(mvm)
  /\ mlast' = [mlast EXCEPT !.op = "input", !.pre = mvm, !.n = @ + 1,
                            !.err = IF Len(op_input(mvm).stack) = Len(mvm.stack) + 1
                                    THEN "" ELSE "raised",
                            !.val = Top(op_input(mvm)),
                            !.got = Append(@, Read(Top(op_input(mvm)), "input"))]
  /\ UNCHANGED <<codecVars, vmVars, libVars>>

NextAccess == Load \/ Store \/ LoadCode \/ Feed \/ Input

SpecAccess == InitAccess /\ [][NextAccess]_vars

\* The last call was a load or a store that the claim names as an error:
\* a store to a code address or to MMIO-in, a load from MMIO-out, or an
\* address outside all segments.
Denied ==
  \/ mlast.op = "store" /\ segment(mlast.addr) \in {"CODE", "MMIO_IN"}
  \/ mlast.op = "load" /\ segment(mlast.addr) = "MMIO_OUT"
  \/ mlast.op \in {"load", "store"} /\ segment(mlast.addr) = "none"

\* C26: load and store check the permission bits of the segment the address
\* falls in: a store to a code address or to MMIO-in and a load from
\* MMIO-out raise MemoryError, an address outside all segments raises
\* 'Address out of range', and in each of these cases the segment cells,
\* the input queue and the output log are as they were before the call.
C26_PermissionsChecked ==
  /\ mlast.op = "load" /\ segment(mlast.addr) # "none"
       /\ ~permissions[segment(mlast.addr)].read => mlast.err # ""
  /\ mlast.op = "store" /\ segment(mlast.addr) # "none"
       /\ ~permissions[segment(mlast.addr)].write => mlast.err # ""
  /\ Denied =>
       /\ mlast.err # ""
       /\ segment(mlast.addr) = "none" => mlast.err = "Address out of range"
       /\ mvm.cells = mlast.pre.cells
       /\ mvm.io_in = mlast.pre.io_in
       /\ mvm.io_out = mlast.pre.io_out

\* A store to MMIO-in was refused on a machine with a stored cell, a value
\* in the input queue and a value in the output log.
C26_Witness ==
  /\ mlast.op = "store"
  /\ mlast.addr = MMIO_IN
  /\ mlast.err = "Cannot store to MMIO_IN"
  /\ mvm.cells # << >>
  /\ mvm.io_in # << >>
  /\ mvm.io_out # << >>

\* The last call was a load of a code address.
CodeLoaded == mlast.op = "load" /\ segment(mlast.addr) = "CODE"

\* The last call was a store to a code address.
CodeStored == mlast.op = "store" /\ segment(mlast.addr) = "CODE"

\* C27 as stated: a load of any address of the code segment succeeds,
\* whatever program was or was not loaded with load_code, and a store to
\* any such address raises and leaves the loaded code unchanged.
C27_CodeReadable_AsStated ==
  /\ CodeLoaded => mlast.err = ""
  /\ CodeStored => mlast.err # "" /\ mvm.code = mlast.pre.code

\* C27 amended: a load of a code address succeeds, with the instruction
\* loaded there, when the address is below CODE_START plus the length of
\* the program loaded with load_code, and raises 'Code address out of
\* range' otherwise; a store to any code address raises and leaves the
\* loaded code unchanged.
C27_CodeReadable ==
  /\ CodeLoaded =>
       IF mlast.addr - CODE_START < Len(mlast.pre.code)
       THEN mlast.err = "" /\ mlast.val = mlast.pre.code[mlast.addr - CODE_START + 1]
       ELSE mlast.err = "Code address out of range"
  /\ CodeLoaded \/ CodeStored => mvm.code = mlast.pre.code
  /\ CodeStored => mlast.err = "Cannot write to code segment"

\* The last instruction of a program that fills the code segment was loaded
\* from the last address of the segment.
C27_Witness ==
  /\ CodeLoaded
  /\ mlast.addr = CODE_START + CODE_SIZE - 1
  /\ Len(mvm.code) = CODE_SIZE
  /\ mlast.err = ""
  /\ mlast.val = mvm.code[CODE_SIZE]

\* The number of queue values that the reads got[j..] consumed after k
\* earlier ones, each read having returned the oldest value not yet consumed,
\* or 0 when every value fed by then had been consumed; -1 when some read
\* returned anything else.
RECURSIVE InOrder(_, _, _, _)
InOrder(got, fed, j, k) ==
  IF j > Len(got) THEN k
  ELSE IF k < got[j].fed
  THEN IF got[j].val = fed[k + 1] THEN InOrder(got, fed, j + 1, k + 1) ELSE -1
  ELSE IF got[j].val = I(0) THEN InOrder(got, fed, j + 1, k) ELSE -1

Consumed == InOrder(mlast.got, mlast.fed, 1, 0)

\* The last call was an INPUT or a load of MMIO-in.
ReadInput == mlast.op = "input" \/ (mlast.op = "load" /\ mlast.addr = MMIO_IN)

\* C28: the values of the input queue are delivered in the order they were
\* appended and each at most once, whether an INPUT or a load of MMIO-in
\* consumes them, in any interleaving of the two; on an empty queue both
\* deliver 0 without raising and leave the queue empty.
C28_InputFifo ==
  /\ Consumed >= 0
  /\ mvm.io_in = SubSeq(mlast.fed, Consumed + 1, Len(mlast.fed))
  /\ ReadInput => mlast.err = ""
  /\ ReadInput /\ mlast.pre.io_in = << >> => mlast.val = I(0) /\ mvm.io_in = << >>

\* Two different values were fed and then consumed in order, one by an
\* INPUT and one by a load of MMIO-in.
C28_Witness ==
  /\ Len(mlast.fed) = 2
  /\ mlast.fed[1] # mlast.fed[2]
  /\ Len(mlast.got) = 2
  /\ mlast.got[1].by # mlast.got[2].by
  /\ mlast.got[1].val = mlast.fed[1]
  /\ mlast.got[2].val = mlast.fed[2]
  /\ mvm.io_in = << >>

(***************************************************************************)
(* Expiry of compiled blocks: the entries (block, expiry) of VM._compiled  *)
(* (src/vm.py:174-199) and of JITCompiler._cache                            *)
(* (src/uor/jit/compiler.py:49-70) under a clock that every call of        *)
(* time.time() may find advanced.  A block is known by the number          *)
(* blocks_compiled had when it was built.                                  *)
(***************************************************************************)
MaxClock == 2
MaxTtl == 1
MaxTtlLen == 2

\* Encoder calls the programs are assembled from; RET on the empty call
\* stack is an instruction without effect.
TtlCalls ==
  {Bare(opcode.OP_RET), WithOperand(opcode.OP_PUSH, 1), Signed(opcode.OP_JMP, -2)}

NoEntry == [id |-> 0, exp |-> 0, born |-> 0]

NoDispatch == [ip |-> 0, old |-> NoEntry, checked |-> 0]

\* _compiled, _jit._cache and _jit.blocks_compiled, the clock as last read,
\* and the entry the last dispatch found with the time it compared it to.
NewBooks ==
  [compiled |-> << >>, cache |-> << >>, blocks_compiled |-> 0, now |-> 0,
   last |-> NoDispatch]

\* A later reading of the clock.
Tick(t, d) == Min(MaxClock, t + d)

\* An expiry test that never finds a block expired.
Expired_never(exp, now) == FALSE

\* exp < time.time()
Expired(exp, now) == exp < now

\* JITCompiler._prune
Pruned(entries, now) ==
  [k \in {q \in DOMAIN entries : ~Expired(entries[q].exp, now)} |-> entries[k]]

\* JITCompiler.compile_block([instr]) with the clock read as t1 by _prune
\* and as t2 when the entry is cached: the cache, the counter and the block.
CompileBlock(h, key, ttl, t1, t2) ==
  IF key \in DOMAIN Pruned(h.cache, t1)
  THEN [cache |-> Pruned(h.cache, t1), blocks_compiled |-> h.blocks_compiled,
        id |-> Pruned(h.cache, t1)[key].id, born |-> Pruned(h.cache, t1)[key].born]
  ELSE [cache |-> [k \in DOMAIN Pruned(h.cache, t1) \cup {key} |->
                     IF k = key
                     THEN [id |-> h.blocks_compiled + 1, exp |-> t2 + ttl, born |-> t2]
                     ELSE Pruned(h.cache, t1)[k]],
        blocks_compiled |-> h.blocks_compiled + 1,
        id |-> h.blocks_compiled + 1, born |-> t2]

\* The dispatch at m.ip finds a block whose expiry lies before t0.
FoundExpired(h, m, t0) ==
  m.ip \in DOMAIN h.compiled /\ Expired(h.compiled[m.ip].exp, t0)

\* self._compiled[self.ip] = (block, time.time() + self._jit.ttl), the clock
\* read as t3.
Register(h, ip, c, ttl, t3) ==
  [h EXCEPT !.cache = c.cache, !.blocks_compiled = c.blocks_compiled,
            !.compiled = [i \in DOMAIN @ \cup {ip} |->
                            IF i = ip THEN [id |-> c.id, exp |-> t3 + ttl, born |-> c.born]
                            ELSE @[i]]]

\* The entries after the iteration that took machine m to m2, the clock
\* read as t[1] by the expiry test, as t[2] and t[3] by compile_block and as
\* t[4] by the registration.
Books(h, m, m2, j, t) ==
  IF AtCap(program, m) THEN h
  ELSE IF m.ip \in m2.compiled /\ (m.ip \notin DOMAIN h.compiled \/ FoundExpired(h, m, t[1]))
  THEN [Register(h, m.ip, CompileBlock(h, PyIndex(program, m.ip).data, j.ttl, t[2], t[3]),
                 j.ttl, t[4])
          EXCEPT !.now = t[4],
                 !.last = [ip |-> m.ip, checked |-> t[1],
                           old |-> IF m.ip \in DOMAIN h.compiled THEN h.compiled[m.ip]
                                   ELSE NoEntry]]
  ELSE IF FoundExpired(h, m, t[1])
  THEN [h EXCEPT !.compiled = [i \in DOMAIN @ \ {m.ip} |-> @[i]], !.now = t[1],
                 !.last = [ip |-> m.ip, checked |-> t[1], old |-> h.compiled[m.ip]]]
  ELSE [h EXCEPT !.now = t[1],
                 !.last = [ip |-> m.ip, checked |-> t[1],
                           old |-> IF m.ip \in DOMAIN h.compiled THEN h.compiled[m.ip]
                                   ELSE NoEntry]]

\* The readings of the clock in one iteration, from the reading now on.
Readings(now, d) ==
  <<Tick(now, d[1]), Tick(Tick(now, d[1]), d[2]), Tick(Tick(Tick(now, d[1]), d[2]), d[3]),
    Tick(Tick(Tick(Tick(now, d[1]), d[2]), d[3]), d[4])>>

InitTtl ==
  /\ CodecIdle /\ MemIdle /\ LibIdle
  /\ \E cs \in CallSeqs(TtlCalls, MaxTtlLen) :
       /\ decode([k \in 1..Len(cs) |-> Encode(cs[k])]).err = "none"
       /\ program = decode([k \in 1..Len(cs) |-> Encode(cs[k])]).result
  /\ jit \in [available : {TRUE}, threshold : 1..MaxThreshold, native : BOOLEAN,
              ttl : 0..MaxTtl]
  /\ vm = Boot
  /\ vh = NewBooks
  /\ ivm = NewVM
  /\ ih = NoStep

\* One iteration of the loop of execute; no instruction of TtlCalls takes a
\* native block out of its array.
TtlStep ==
  /\ vm.status = "running"
  /\ \E d \in [1..4 -> 0..1] :
       /\ vm' = Advance(vm, jit, FoundExpired(vh, vm, Readings(vh.now, d)[1]), "crash")
       /\ vh' = Books(vh, vm,
                      Advance(vm, jit, FoundExpired(vh, vm, Readings(vh.now, d)[1]), "crash"),
                      jit, Readings(vh.now, d))
  /\ UNCHANGED <<codecVars, memVars, program, jit, ivm, ih, libVars>>

\* execute(program) is called again on the machine that has halted.
Restart ==
  /\ vm.status = "halted"
  /\ vm.executed_instructions < MaxSteps
  /\ vm' = [vm EXCEPT !.ip = 0, !.status = "running"]
  /\ UNCHANGED <<codecVars, memVars, program, jit, vh, ivm, ih, libVars>>

NextTtl == TtlStep \/ Restart

SpecTtl == InitTtl /\ [][NextTtl]_vars

\* _compiled holds an entry for exactly the instruction pointers the machine
\* counts as compiled.
BooksInStep == DOMAIN vh.compiled = vm.compiled

\* The iteration went through the interpreter: the counter of the
\* instruction rose by one.
Interpreted(m, m2) ==
  /\ m.ip \in DOMAIN m2.counter
  /\ m2.counter[m.ip] = (IF m.ip \in DOMAIN m.counter THEN m.counter[m.ip] ELSE 0) + 1

\* An iteration dispatched at an instruction pointer that has a block.
TtlEffect ==
  (/\ vm.status = "running"
   /\ ~AtCap(program, vm)
   /\ vm.ip \in DOMAIN vh.compiled
   /\ vm' # vm) =>
    IF vh.compiled[vm.ip].exp < vh'.last.checked
    THEN /\ Interpreted(vm, vm')
         /\ vm.ip \in DOMAIN vh'.compiled =>
              /\ vh'.compiled[vm.ip].id # vh.compiled[vm.ip].id
              /\ jit.ttl = 0 => vh'.compiled[vm.ip].born > vh.compiled[vm.ip].exp
    ELSE /\ ~Interpreted(vm, vm')
         /\ vh'.compiled[vm.ip] = vh.compiled[vm.ip]

\* C29: a compiled block registered for an IP is executed only while its
\* expiry time has not passed: the first dispatch at that IP after expiry
\* removes it from _compiled and the instruction is interpreted; it may be
\* compiled again, the block registered then is not the expired one, and
\* with a TTL of 0 it is a block compiled after the expiry.
C29_BlockExpiry == [][TtlEffect]_vars

\* With a TTL of 0 a dispatch found its block expired and registered
\* another block, after a second block had been built.
C29_Witness ==
  /\ jit.ttl = 0
  /\ vh.last.old.id # 0
  /\ vh.last.old.exp < vh.last.checked
  /\ vh.last.ip \in DOMAIN vh.compiled
  /\ vh.compiled[vh.last.ip].id # vh.last.old.id
  /\ vh.blocks_compiled >= 2
(***************************************************************************)
(* Coherence validator (src/uor/vm/coherence.py) attached to a VM          *)
(* (src/vm.py).  vm is the machine built with coherence_validator set, vh  *)
(* its validator, ivm a machine built without one running the same         *)
(* program.  Both run with the JIT unavailable.                            *)
(***************************************************************************)
MaxCoLen == 3
MaxTolerance == 2

CoherenceMode == {"STRICT", "TOLERANT", "DISABLED"}

CoCalls ==
  {WithOperand(opcode.OP_PUSH, 1), Bare(opcode.OP_PRINT), Bare(opcode.OP_ADD)}

\* What an instance of SegmentedMemory answers to: the attributes __init__
\* assigns, the class constants and the methods.
MemoryAttributes ==
  {"vm", "CODE_SIZE", "DATA_SIZE", "HEAP_SIZE", "STACK_SIZE", "PAGE_SIZE",
   "CODE_START", "DATA_START", "HEAP_START", "STACK_START", "MMIO_IN",
   "MMIO_OUT", "segments", "permissions", "heap_pointer", "stack_pointer",
   "_free_pages", "_allocations", "code", "load_code", "memory_map",
   "_segment", "_page_for", "_alloc_for_addr", "load", "store", "allocate",
   "allocate_heap", "allocate_stack", "_try_allocate", "free", "collect",
   "dump", "load_dump", "__len__"}

\* CoherenceValidator(tolerance=t, mode=mode, runtime_check=rc)
NewValidator(mode, t, rc) ==
  [mode |-> mode, tolerance |-> t, runtime_check |-> rc,
   last_checksum |-> Flt(0, 1), max_drift |-> Flt(0, 1),
   restorations |-> 0, violations |-> 0]

\* sum(values), starting from acc.
RECURSIVE SumValues(_, _)
SumValues(vals, acc) ==
  IF vals = << >> \/ acc.res # "ok" THEN acc
  ELSE SumValues(Tail(vals), Arith("add", acc.v, Head(vals)))

Plus(r, v) == IF r.res # "ok" THEN r ELSE Arith("add", r.v, v)

\* float(sum(vm.stack) + sum(vm.mem.storage.values()) + vm.ip): the stack is
\* summed first, then the attribute storage of the memory is looked up.
checksum(m) ==
  IF SumValues(m.stack, Ok(I(0))).res # "ok" THEN SumValues(m.stack, Ok(I(0)))
  ELSE IF "storage" \notin MemoryAttributes THEN Fail("AttributeError")
  ELSE Plus(Plus(SumValues(CellValues(m.cells), SumValues(m.stack, Ok(I(0)))),
                 I(m.ip)),
            Flt(0, 1))

\* What a call on the validator leaves: the validator and the name of the
\* exception it raised ("ok" when it returned).
Passed(v) == [v |-> v, res |-> "ok"]
Raised(v, kind) == [v |-> v, res |-> kind]

\* CoherenceValidator.start
start(v, m) ==
  IF checksum(m).res # "ok" THEN Raised(v, checksum(m).res)
  ELSE Passed([v EXCEPT !.last_checksum = checksum(m).v,
                          !.max_drift = Flt(0, 1),
                          !.restorations = 0, !.violations = 0])

\* abs(current - last)
Drift(current, last) ==
  Flt(Abs(current.n * last.d - last.n * current.d), current.d * last.d)

Larger(a, b) == IF Cmp(a, b) >= 0 THEN a ELSE b

\* CoherenceValidator.restore
restore(v, m) ==
  IF checksum(m).res # "ok"
  THEN Raised([v EXCEPT !.restorations = @ + 1], checksum(m).res)
  ELSE Passed([v EXCEPT !.restorations = @ + 1,
                          !.last_checksum = checksum(m).v])

\* The part of check that follows the computation of the current checksum.
Judged(v, m, current) ==
  IF Cmp(Drift(current, v.last_checksum), I(v.tolerance)) <= 0
  THEN Passed([v EXCEPT !.max_drift = Larger(@, Drift(current, v.last_checksum)),
                          !.last_checksum = current])
  ELSE IF v.mode = "TOLERANT"
  THEN restore([v EXCEPT !.max_drift = Larger(@, Drift(current, v.last_checksum))], m)
  ELSE Raised([v EXCEPT !.max_drift = Larger(@, Drift(current, v.last_checksum)),
                        !.violations = @ + 1],
              "CoherenceViolation")

\* CoherenceValidator.check
check(v, m) ==
  IF checksum(m).res # "ok" THEN Raised(v, checksum(m).res)
  ELSE IF v.mode = "DISABLED" \/ ~v.runtime_check
  THEN Passed([v EXCEPT !.last_checksum = checksum(m).v])
  ELSE Judged(v, m, checksum(m).v)

\* The number of calls of _check_coherence in the iteration that took m to
\* m2: none when nothing was executed or the instruction raised, one after a
\* block, two after a handler or a data instruction.
Checks(m, m2) ==
  IF m2.status # "running" \/ m2.executed_instructions = m.executed_instructions
  THEN 0
  ELSE IF InstrKind(PyIndex(program, m.ip).data) \in {"block", "ntt"} THEN 1
  ELSE 2

\* _check_coherence called n times on machine m.
RECURSIVE CheckedTimes(_, _, _)
CheckedTimes(r, m, n) ==
  IF n = 0 \/ r.res # "ok" THEN r ELSE CheckedTimes(check(r.v, m), m, n - 1)

\* The machine after a call on its validator that left r.
Validated(m, r) ==
  IF r.res = "ok" THEN m
  ELSE IF r.res = "cap" THEN Capped(m)
  ELSE RaisePy(m, r.res)

InitCoherence ==
  /\ CodecIdle
  /\ MemIdle
  /\ LibIdle
  /\ \E cs \in CallSeqs(CoCalls, MaxCoLen) :
       program = decode([k \in 1..Len(cs) |-> Encode(cs[k])]).result
  /\ jit = JitOff
  /\ vm = NewVM
  /\ \E mode \in CoherenceMode, t \in 0..MaxTolerance, rc \in BOOLEAN :
       vh = NewValidator(mode, t, rc)
  /\ ivm = Boot
  /\ ih = NoStep

\* The machine and the validator that one iteration leaves.
Settled(m2, r2) == [vm |-> Validated(m2, r2), vh |-> r2.v]

\* The calls of _check_coherence that follow the instruction that took m0 to m2.
Rechecked(r0, m0, m2) == Settled(m2, CheckedTimes(r0, m2, Checks(m0, m2)))

\* One iteration of the loop on m0, when m0 is still running.
Looped(r0, m0) ==
  Rechecked(r0, m0,
            IF m0.status = "running" THEN Advance(m0, jit, FALSE, "crash") ELSE m0)

\* The lines of execute before the loop, which call start on a new machine.
Entered(m, r0) ==
  Looped(r0, IF m.status = "new" THEN Validated(Boot, r0) ELSE m)

CoRun(m, v) ==
  Entered(m, IF m.status = "new" THEN start(v, Boot) ELSE Passed(v))

\* The machine with the validator runs execute up to the end of one iteration
\* of its loop: the first time through the lines before the loop, which call
\* start, and every time with the calls of _check_coherence that follow the
\* instruction.
CoStep ==
  /\ vm.status \in {"new", "running"}
  /\ vm' = CoRun(vm, vh).vm
  /\ vh' = CoRun(vm, vh).vh
  /\ UNCHANGED <<codecVars, memVars, program, jit, ivm, ih, libVars>>

\* The machine without a validator runs one iteration.
PlainStep ==
  /\ ivm.status = "running"
  /\ ivm' = Advance(ivm, jit, FALSE, "crash")
  /\ UNCHANGED <<codecVars, memVars, program, jit, vm, vh, ih, libVars>>

NextCoherence == CoStep \/ PlainStep

SpecCoherence == InitCoherence /\ [][NextCoherence]_vars

\* C30: with a validator attached, a run is stopped by the validator only in
\* STRICT mode, with CoherenceViolation and violations counted; in TOLERANT
\* and DISABLED mode the run ends as the run without a validator ends, with
\* the same output; in DISABLED mode neither restorations nor violations
\* moves.
C30_CoherenceModes ==
  /\ vm.status = "error" /\ vh.mode = "STRICT" =>
       \/ vm.err.kind = "CoherenceViolation" /\ vh.violations > 0
       \/ Finished(ivm) => vm.err = ivm.err
  /\ vm.err.kind = "CoherenceViolation" => vh.mode = "STRICT"
  /\ vh.mode \in {"TOLERANT", "DISABLED"} /\ Finished(vm) /\ Finished(ivm) =>
       /\ vm.out = ivm.out
       /\ vm.err = ivm.err
  /\ vh.mode = "DISABLED" => vh.restorations = 0 /\ vh.violations = 0

\* Every run with a validator attached ends before its first instruction.
CoherenceStartFails ==
  vm.status # "new" =>
    /\ vm.status = "error"
    /\ vm.err.kind = "AttributeError"
    /\ vm.out = << >>
    /\ vm.executed_instructions = 0
    /\ vh.restorations = 0 /\ vh.violations = 0
(***************************************************************************)
(* decode (src/decoder.py) on lists of chunks that hold framing headers:   *)
(* the list is put together chunk by chunk and then decoded.               *)
(***************************************************************************)
MaxFrameLen == 5

FramingCalls ==
  {Header("ntt", 1), Header("ntt", 2), Header("block_start", 4),
   WithOperand(opcode.OP_PUSH, 1), Bare(opcode.OP_PRINT)}

InitFraming ==
  /\ cpc = "idle"
  /\ call = NoCall
  /\ chunk = << >>
  /\ decoded = NoDecoded
  /\ MemIdle
  /\ VMIdle
  /\ LibIdle

\* One more chunk produced by an encoder of chunks.py ends the list.
AppendChunk ==
  /\ cpc = "idle"
  /\ Len(chunk) < MaxFrameLen
  /\ \E c \in FramingCalls :
       /\ call' = c
       /\ chunk' = Append(chunk, Encode(c))
  /\ UNCHANGED <<cpc, decoded, memVars, vmVars, libVars>>

\* decode(chunks)
DecodeList ==
  /\ cpc = "idle"
  /\ decoded' = decode(chunk)
  /\ cpc' = "decoded"
  /\ UNCHANGED <<call, chunk, memVars, vmVars, libVars>>

NextFraming == AppendChunk \/ DecodeList

SpecFraming == InitFraming /\ [][NextFraming]_vars

\* The index of the length prime of a decoded header.
FrameCount(instr) ==
  PRIME_IDX[LengthPrime(instr.data,
                        IF HasPair(instr.data, BLOCK_TAG, 7) THEN BLOCK_TAG
                        ELSE NTT_TAG)]

\* The number of chunks a list of decoded instructions was decoded from.
RECURSIVE Covered(_)
Covered(instrs) ==
  IF instrs = << >> THEN 0
  ELSE 1 + Covered(Head(instrs).inner) + Covered(Tail(instrs))

\* result is the decoding of chunks in which every header, at every depth,
\* holds the decoding of the Frames(N, rest) chunks that follow it, and the
\* list goes on with the chunk after them.
RECURSIVE FramedBy(_, _, _)
FramedBy(Frames(_, _), chunks, result) ==
  IF result = << >> THEN chunks = << >>
  ELSE /\ chunks # << >>
       /\ Head(result).data = decode_single(Head(chunks)).data
       /\ IF IsFrame(Head(result))
          THEN LET n == Frames(FrameCount(Head(result)), Len(chunks) - 1)
               IN  /\ n <= Len(chunks) - 1
                   /\ Covered(Head(result).inner) = n
                   /\ FramedBy(Frames, SubSeq(chunks, 2, n + 1), Head(result).inner)
                   /\ FramedBy(Frames, SubSeq(chunks, n + 2, Len(chunks)), Tail(result))
          ELSE /\ Head(result).inner = << >>
               /\ FramedBy(Frames, Tail(chunks), Tail(result))

Exactly(n, rest) == n
Clipped(n, rest) == IF n < rest THEN n ELSE rest

\* C31: every framing header of a decoded list whose length prime has index
\* N holds the decoding of exactly the N chunks that follow it, at every
\* depth of nesting and for every input list, and the result goes on with the
\* chunk after those N.
C31_FramingChildren ==
  (cpc = "decoded" /\ decoded.err = "none") => FramedBy(Exactly, chunk, decoded.result)

\* What decode does: a header holds the decoding of the chunks that follow
\* it, N of them or as many as the list (for a nested header: the run of the
\* enclosing header) still has.
FramingClipped ==
  (cpc = "decoded" /\ decoded.err = "none") => FramedBy(Clipped, chunk, decoded.result)

\* Where the list has N chunks after every header, the claim's case holds.
RECURSIVE Complete(_)
Complete(result) ==
  \A k \in 1..Len(result) :
    /\ IsFrame(result[k]) => Covered(result[k].inner) = FrameCount(result[k])
    /\ Complete(result[k].inner)

FramingComplete ==
  (cpc = "decoded" /\ decoded.err = "none" /\ Complete(decoded.result)) =>
    FramedBy(Exactly, chunk, decoded.result)
(***************************************************************************)
(* The page allocator of SegmentedMemory (src/uor/memory.py): allocate,    *)
(* free and collect, with what allocate was given and what it returned.    *)
(***************************************************************************)
MaxAllocOps == 3

\* mem.allocate(size): the call leaves the memory it found, the size and the
\* address returned (NoAlloc when it raised).
Allocate ==
  /\ mlast.n < MaxAllocOps
  /\ \E size \in 0..MaxAllocSize :
       /\ mvm' = allocate(mvm, size).m
       /\ mlast' = [op |-> "allocate", pre |-> mvm, err |-> allocate(mvm, size).err,
                    n |-> mlast.n + 1, size |-> size,
                    addr |-> allocate(mvm, size).addr]
  /\ UNCHANGED <<codecVars, vmVars, libVars>>

\* The other calls on the memory, within the number of calls followed here.
AllocStore == mlast.n < MaxAllocOps /\ MemStore
AllocFree == mlast.n < MaxAllocOps /\ MemFree
AllocCollect == mlast.n < MaxAllocOps /\ MemCollect
AllocPushStack == mlast.n < MaxAllocOps /\ MemPushStack
AllocPushCall == mlast.n < MaxAllocOps /\ MemPushCall

NextAlloc ==
  \/ Allocate
  \/ AllocStore
  \/ AllocFree
  \/ AllocCollect
  \/ AllocPushStack
  \/ AllocPushCall

SpecAlloc == InitMem /\ [][NextAlloc]_vars

NumPages == HEAP_SIZE \div PAGE_SIZE

PagesNeeded(size) == (size + PAGE_SIZE - 1) \div PAGE_SIZE

AllocPages(m) ==
  UNION {SeqToSet(m.allocations[k].pages) : k \in 1..Len(m.allocations)}

PagesPartitioned(m) ==
  /\ m.free_pages \cap AllocPages(m) = {}
  /\ \A j, k \in 1..Len(m.allocations) :
       j # k => SeqToSet(m.allocations[j].pages)
                  \cap SeqToSet(m.allocations[k].pages) = {}
  /\ m.free_pages \cup AllocPages(m) = 0..(NumPages - 1)

PagesContiguous(info) ==
  /\ Len(info.pages) = PagesNeeded(info.size)
  /\ info.pages # << >>
  /\ info.start = HEAP_START + info.pages[1] * PAGE_SIZE
  /\ \A i \in 1..Len(info.pages) : info.pages[i] = info.pages[1] + i - 1

\* allocate has just returned an address.
JustAllocated == mlast.op = "allocate" /\ mlast.err = ""

\* C32: after any sequence of allocate, free and collect calls (and stores),
\* the free-page set and the page lists of the live allocations partition the
\* page grid; each allocation's pages are contiguous, start at its start
\* address and number ceil(size / PAGE_SIZE); and right after allocate(size)
\* returns a, every address a .. a + size - 1 loads 0.
C32_PagePartition ==
  /\ PagesPartitioned(mvm)
  /\ \A k \in 1..Len(mvm.allocations) : PagesContiguous(mvm.allocations[k])
  /\ JustAllocated =>
       /\ mlast.addr # NoAlloc
       /\ \A a \in mlast.addr..(mlast.addr + mlast.size - 1) :
            /\ load(mvm, a).err = ""
            /\ load(mvm, a).val = I(0)

\* allocate returned an allocation of more than one page, as the third call
\* or later, in a memory that already held an allocation and stored cells.
C32_Witness ==
  /\ JustAllocated
  /\ mlast.size > PAGE_SIZE
  /\ mlast.n >= 3
  /\ Len(mvm.allocations) >= 2
  /\ Len(mlast.pre.allocations) >= 1
  /\ mlast.pre.cells # << >>

\* Some run of PagesNeeded(size) consecutive pages of m is free.
HasRun(m, size) ==
  \E p \in 0..(NumPages - 1) :
    \A j \in 0..(PagesNeeded(size) - 1) : (p + j) \in m.free_pages

\* The ALLOC handler at instruction 0 on the memory the call found.
AllocHandled ==
  Allocated(allocate([mlast.pre EXCEPT !.ip = 1, !.status = "running"], mlast.size))

\* C33: for every size n >= 0, allocate(n) returns the start of a new
\* allocation, or raises "Out of memory" when no run of free pages is large
\* enough even after one collection; ALLOC reports that as MemoryAccess with
\* its own instruction pointer; nothing else is raised, and a failed
\* allocation leaves the table and the free pages as the collection left
\* them.
C33_AllocateOrOutOfMemory ==
  mlast.op = "allocate" =>
    \/ /\ mlast.err = ""
       /\ mlast.addr # NoAlloc
       /\ \E k \in 1..Len(mvm.allocations) :
            /\ mvm.allocations[k].start = mlast.addr
            /\ mvm.allocations[k].size = mlast.size
       /\ AllocHandled.status = "running"
       /\ AllocHandled.stack = Append(mlast.pre.stack, I(mlast.addr))
    \/ /\ mlast.err = "Out of memory"
       /\ ~HasRun(mlast.pre, mlast.size)
       /\ ~HasRun(collect(mlast.pre), mlast.size)
       /\ mvm.allocations = collect(mlast.pre).allocations
       /\ mvm.free_pages = collect(mlast.pre).free_pages
       /\ AllocHandled.status = "error"
       /\ AllocHandled.err = [kind |-> "MemoryAccess", ip |-> 0, has_ip |-> TRUE]

\* The claim for the sizes that need at least one page.
AllocateOrOutOfMemoryAboveZero ==
  (mlast.op = "allocate" /\ mlast.size > 0) => C33_AllocateOrOutOfMemory

\* allocate(0) raises IndexError and changes nothing.
AllocateZero ==
  (mlast.op = "allocate" /\ mlast.size = 0) =>
    /\ mlast.err = "IndexError"
    /\ mvm = mlast.pre
(***************************************************************************)
(* A CallStackTracker (src/uor/debugger/call_stack.py) attached to the VM: *)
(* vm.call_stack_tracker = CallStackTracker() before execute, on the       *)
(* machine with the JIT and on the machine without it.                     *)
(***************************************************************************)
MaxTrackLen == 4

TrackerCalls ==
  {Signed(opcode.OP_CALL, 1), Signed(opcode.OP_CALL, -2), Bare(opcode.OP_RET)}

Tracked == [Boot EXCEPT !.tracker = TRUE]

InitTracker ==
  /\ CodecIdle
  /\ MemIdle
  /\ LibIdle
  /\ \E cs \in CallSeqs(TrackerCalls, MaxTrackLen) :
       program = decode([k \in 1..Len(cs) |-> Encode(cs[k])]).result
  /\ jit \in JitConfigs
  /\ vm = Tracked
  /\ ivm = Tracked
  /\ vh = NoStep
  /\ ih = NoStep

SpecTracker == InitTracker /\ [][NextVM]_vars

\* The frame list mirrors the call stack.
Mirrors(m) ==
  /\ Len(m.frames) = Len(m.call_stack)
  /\ \A k \in 1..Len(m.frames) :
       /\ m.frames[k].return_ip = m.call_stack[k]
       /\ m.frames[k].call_site = m.frames[k].return_ip - 1

\* The depth of call stack and frame list both change by d.
BothBy(m, m2, d) ==
  /\ Len(m2.call_stack) = Len(m.call_stack) + d
  /\ Len(m2.frames) = Len(m.frames) + d
  /\ \A k \in 1..(Len(m.call_stack) + (IF d < 0 THEN d ELSE 0)) :
       /\ m2.call_stack[k] = m.call_stack[k]
       /\ m2.frames[k] = m.frames[k]

TrackerEffect(m, m2) ==
  /\ Mirrors(m2)
  /\ (AtOp(m, opcode.OP_CALL) /\ m2 # m /\ m2.status = "running") => BothBy(m, m2, 1)
  /\ (AtOp(m, opcode.OP_RET) /\ m.call_stack # << >> /\ m2 # m) => BothBy(m, m2, -1)
  /\ (AtOp(m, opcode.OP_RET) /\ m.call_stack = << >>) => BothBy(m, m2, 0)

\* C34: with a CallStackTracker attached, in every state of an execution
\* the tracker's frame list is as long as the call stack, frames[k].return_ip
\* is call_stack[k] and frames[k].call_site is return_ip - 1; CALL pushes on
\* both, RET on a non-empty call stack pops both, RET on an empty call stack
\* changes neither.
C34_TrackerMirrors ==
  [][TrackerEffect(vm, vm') /\ TrackerEffect(ivm, ivm')]_vars

\* A compiled RET has popped a frame of a nested call: two frames were pushed,
\* one is left, and the machine went through the block of the RET.
C34_Witness ==
  /\ vm.tracker
  /\ vh.jitted /\ vh.op = opcode.OP_RET /\ vh.ok
  /\ Len(vm.frames) >= 1
  /\ Len(vm.call_stack) = Len(vm.frames)
  /\ vm.executed_instructions >= 3
(***************************************************************************)
(* HALT (src/vm.py:508-510) and the end of the loop of execute             *)
(* (src/vm.py:168-172).  execute may be called again on a machine whose    *)
(* run has ended; _counter and _compiled are those of the machine.         *)
(***************************************************************************)
MaxHaltLen == 3

HaltCalls ==
  {WithOperand(opcode.OP_PUSH, 1), Bare(opcode.OP_HALT), Bare(opcode.OP_PRINT)}

InitHalt == InitVM(HaltCalls, MaxHaltLen)

\* execute(program) called again on machine m, whose run has ended normally:
\* self.ip = 0, everything else is as the run left it.
Reexecuted(m) == [m EXCEPT !.ip = 0, !.status = "running"]

ExecuteAgain ==
  /\ vm.status = "halted"
  /\ vm.executed_instructions < MaxSteps
  /\ vm' = Reexecuted(vm)
  /\ UNCHANGED <<codecVars, memVars, program, jit, vh, ivm, ih, libVars>>

ExecuteAgainInterpreted ==
  /\ vm.status # "running"
  /\ ivm.status = "halted"
  /\ ivm.executed_instructions < MaxSteps
  /\ ivm' = Reexecuted(ivm)
  /\ UNCHANGED <<codecVars, memVars, program, jit, vm, vh, ih, libVars>>

NextHalt == JitStep \/ InterpStep \/ ExecuteAgain \/ ExecuteAgainInterpreted

SpecHalt == InitHalt /\ [][NextHalt]_vars

\* The iteration that executed HALT took machine m to m2: IP is the program
\* length, stack and output are as HALT found them, nothing was raised.
Halted(m, m2) ==
  /\ m2.status = "running"
  /\ m2.ip = Len(program)
  /\ m2.stack = m.stack
  /\ m2.out = m.out

\* The iteration that found IP at the program length ended the run.
Ended(m, m2) == m2 = [m EXCEPT !.status = "halted"]

HaltEffect(m, m2) ==
  /\ (AtOp(m, opcode.OP_HALT) /\ m2 # m) => Halted(m, m2)
  /\ (m.status = "running" /\ m.ip = Len(program) /\ m2 # m) => Ended(m, m2)

\* C35: after HALT executes no later instruction executes and nothing more
\* is emitted: the run ends normally with IP at the program length and the
\* operand stack as HALT found it.
C35_HaltEnds == [][HaltEffect(vm, vm') /\ HaltEffect(ivm, ivm')]_vars

\* The interpreted HALT ends the run as stated, in every call of execute.
HaltInterpreted ==
  [][/\ HaltEffect(ivm, ivm')
     /\ vm.ip \notin vm.compiled => HaltEffect(vm, vm')]_vars

\* A HALT that runs as a compiled block leaves IP one past the program
\* length, and the next iteration raises SegmentationFault there.
HaltCompiled ==
  [][/\ (AtOp(vm, opcode.OP_HALT) /\ vm' # vm /\ ~Halted(vm, vm')) =>
          /\ vm.ip \in vm.compiled
          /\ vm'.status = "running"
          /\ vm'.ip = Len(program) + 1
          /\ vm'.stack = vm.stack /\ vm'.out = vm.out
     /\ (vm.status = "running" /\ vm.ip = Len(program) + 1 /\ vm' # vm) =>
          /\ vm'.status = "error"
          /\ vm'.err = [kind |-> "SegmentationFault", ip |-> Len(program) + 1,
                       has_ip |-> TRUE]]_vars
(***************************************************************************)
(* The effect of every opcode handler (src/vm.py:288-357, 363-621) on the  *)
(* depth of the operand stack.  One instruction per key of _dispatch is    *)
(* executed on a machine that holds a stack from earlier calls of execute, *)
(* alone or followed by a jump back to it, so that its handler also runs   *)
(* from a compiled block.                                                  *)
(***************************************************************************)
DepthCalls ==
  {WithOperand(opcode.OP_PUSH, 1), WithOperand(opcode.OP_LOAD, DATA_START),
   WithOperand(opcode.OP_STORE, DATA_START), WithOperand(opcode.OP_ALLOC, 1),
   WithOperand(opcode.OP_FREE, HEAP_START)}
  \cup {Signed(op, 1) : op \in SignedOps}
  \cup {Bare(op) : op \in DispatchOps \ (OperandOps \cup SignedOps)}

DepthPrograms ==
  {<<c>> : c \in DepthCalls} \cup {<<c, Signed(opcode.OP_JMP, -2)>> : c \in DepthCalls}

DepthStacks ==
  {<< >>, <<I(2), I(1), I(0)>>, <<Flt(1, 1), Flt(1, 2)>>}

InitDepth ==
  /\ CodecIdle
  /\ MemIdle
  /\ LibIdle
  /\ \E cs \in DepthPrograms :
       /\ decode([k \in 1..Len(cs) |-> Encode(cs[k])]).err = "none"
       /\ program = decode([k \in 1..Len(cs) |-> Encode(cs[k])]).result
  /\ jit \in JitConfigs
  /\ \E st \in DepthStacks :
       /\ vm = [Boot EXCEPT !.stack = st, !.io_in = <<I(2)>>]
       /\ ivm = [Boot EXCEPT !.stack = st, !.io_in = <<I(2)>>]
  /\ vh = NoStep
  /\ ih = NoStep

SpecDepth == InitDepth /\ [][NextVM]_vars

PlusOne ==
  {opcode.OP_PUSH, opcode.OP_LOAD, opcode.OP_INPUT, opcode.OP_ALLOC,
   vm_opcode.OP_DUP, vm_opcode.OP_OVER, opcode.OP_NET_RECV, opcode.OP_SYSCALL,
   opcode.OP_INT, opcode.OP_RNG}

Same ==
  {opcode.OP_NEG, vm_opcode.OP_NOT, vm_opcode.OP_SWAP, vm_opcode.OP_ROT,
   opcode.OP_F2I, opcode.OP_I2F, opcode.OP_HASH, opcode.OP_SIGN,
   vm_opcode.OP_PICK, opcode.OP_JMP, opcode.OP_CALL, opcode.OP_RET,
   opcode.OP_HALT, opcode.OP_NOP, opcode.OP_FREE}

MinusOne ==
  {opcode.OP_ADD, opcode.OP_SUB, opcode.OP_MUL, opcode.OP_DIV, opcode.OP_MOD,
   opcode.OP_FMUL, opcode.OP_FDIV, opcode.OP_AND, opcode.OP_OR, opcode.OP_XOR,
   opcode.OP_SHL, opcode.OP_SHR, vm_opcode.OP_GT, vm_opcode.OP_LT,
   vm_opcode.OP_EQ, vm_opcode.OP_NEQ, vm_opcode.OP_GTE, vm_opcode.OP_LTE,
   opcode.OP_STORE, opcode.OP_JZ, opcode.OP_JNZ, opcode.OP_PRINT,
   opcode.OP_OUTPUT, vm_opcode.OP_DROP, opcode.OP_VERIFY}

\* The iteration that took machine m to m2 called the handler of op and the
\* handler returned; native says that a block of C ran in its place.
HandlerReturned(m, m2, op, native) ==
  /\ AtOp(m, op)
  /\ op \in DispatchOps
  /\ ~native
  /\ m2 # m
  /\ m2.status = "running"

DepthChange(m, m2) == Len(m2.stack) - Len(m.stack)

DepthEffect(m, m2, native) ==
  \A op \in DispatchOps :
    HandlerReturned(m, m2, op, native) =>
      /\ DepthChange(m, m2) <= 1
      /\ op \in PlusOne => DepthChange(m, m2) = 1
      /\ op \in Same => DepthChange(m, m2) = 0
      /\ op \in MinusOne => DepthChange(m, m2) = -1

MaxDebugLen == 2

DebugCalls ==
  {WithOperand(opcode.OP_PUSH, 1), WithOperand(opcode.OP_STORE, DATA_START),
   WithOperand(opcode.OP_LOAD, DATA_START), WithOperand(opcode.OP_LOAD, MMIO_OUT),
   Bare(opcode.OP_PRINT), Signed(opcode.OP_JMP, -2)}

\* The letters of a watchpoint's mode.
WatchModes == {{"r"}, {"w"}, {"r", "w"}}

\* breakpoints, watchpoints, tracing and _step_mode after calls of
\* add_breakpoint, add_watchpoint, enable_tracing and step.
Debuggers ==
  {[on |-> TRUE, breakpoints |-> b, watchpoints |-> w, tracing |-> t, step_mode |-> s] :
     b \in {{}, {1}, {0, 1}},
     w \in {<< >>} \cup {a :> mode : a \in {DATA_START, MMIO_OUT}, mode \in WatchModes},
     t \in BOOLEAN, s \in BOOLEAN}

DebugJits == {JitOff, [available |-> TRUE, threshold |-> 1, native |-> TRUE]}

InitDebug ==
  /\ CodecIdle
  /\ MemIdle
  /\ LibIdle
  /\ \E cs \in CallSeqs(DebugCalls, MaxDebugLen) :
       /\ decode([k \in 1..Len(cs) |-> Encode(cs[k])]).err = "none"
       /\ program = decode([k \in 1..Len(cs) |-> Encode(cs[k])]).result
  /\ jit \in DebugJits
  /\ \E d \in Debuggers : vm = [NewDebugVM EXCEPT !.status = "running", !.debugger = d]
  /\ vh = NoStep
  /\ ivm = NewVM
  /\ ih = NoStep

\* One iteration of the loop of DebugVM.execute.
DebugIteration ==
  /\ vm.status = "running"
  /\ vm' = Advance(vm, jit, FALSE, "crash")
  /\ UNCHANGED <<codecVars, memVars, program, jit, vh, ivm, ih, libVars>>

NextDebug == DebugIteration

SpecDebug == InitDebug /\ [][NextDebug]_vars

\* What the iteration that took machine m to m2 yielded.
Yielded(m, m2) == SubSeq(m2.out, Len(m.out) + 1, Len(m2.out))

Tags(items, names) == {k \in 1..Len(items) : items[k].k \in names}

InLoop(m) == m.status = "running" /\ ~AtCap(program, m) /\ m.ip < Len(program)

Pausing(m) == InLoop(m) /\ (m.ip \in m.debugger.breakpoints \/ m.debugger.step_mode)

Executing(m) == InLoop(m) /\ ~Pausing(m)

\* The instruction machine m is about to execute is op with operand a.
AtAccess(m, op, a) ==
  /\ m.ip >= 0
  /\ OpcodeOf(PyIndex(program, m.ip).data) = op
  /\ Operand(PyIndex(program, m.ip).data, FALSE) # NoPrime
  /\ PRIME_IDX[Operand(PyIndex(program, m.ip).data, FALSE)] = a

WatchedFor(m, a, letter) ==
  a \in DOMAIN m.debugger.watchpoints /\ letter \in m.debugger.watchpoints[a]

\* The items that follow the trace line of the iteration.
AfterTrace(m, m2) ==
  IF m.debugger.tracing THEN Tail(Yielded(m, m2)) ELSE Yielded(m, m2)

WatchEffect(m, m2, op, letter, name) ==
  \A a \in {DATA_START, MMIO_OUT} :
    AtAccess(m, op, a) =>
      IF WatchedFor(m, a, letter)
      THEN /\ AfterTrace(m, m2) # << >>
           /\ Head(AfterTrace(m, m2)) = Tag(name, a)
           /\ Tags(Tail(AfterTrace(m, m2)), {"WATCH:read", "WATCH:write"}) = {}
      ELSE Tags(AfterTrace(m, m2), {"WATCH:read", "WATCH:write"}) = {}

DebugEffect(m, m2) ==
  /\ (Pausing(m) /\ m2 # m) =>
       /\ m2 = [m EXCEPT !.out = Append(@, Tag("BREAK", m.ip)),
                         !.debugger.breakpoints = @ \ {m.ip},
                         !.debugger.step_mode = FALSE]
       /\ Executing(m2)
  /\ (Executing(m) /\ m2 # m) =>
       /\ Tags(Yielded(m, m2), {"BREAK"}) = {}
       /\ m2.status = "running" => m2.executed_instructions = m.executed_instructions + 1
       /\ IF m.debugger.tracing
          THEN /\ Yielded(m, m2) # << >>
               /\ Head(Yielded(m, m2)) = Tag("TRACE", m.ip)
               /\ Tags(Tail(Yielded(m, m2)), {"TRACE"}) = {}
          ELSE Tags(Yielded(m, m2), {"TRACE"}) = {}
       /\ WatchEffect(m, m2, opcode.OP_LOAD, "r", "WATCH:read")
       /\ WatchEffect(m, m2, opcode.OP_STORE, "w", "WATCH:write")

\* C37: a breakpoint at IP b makes the run yield "BREAK:b" before the
\* instruction at b executes and before any of its output, the breakpoint is
\* removed and the instruction at b executes next; with tracing on,
\* "TRACE:ip" is yielded before every instruction; a watchpoint on address a
\* yields "WATCH:a:read" before a LOAD of a and "WATCH:a:write" before a
\* STORE of a takes effect, only when its mode contains r respectively w,
\* also when the access is refused.
C37_DebugTags == [][DebugEffect(vm, vm')]_vars

\* A run with tracing on has paused at the breakpoint 1, gone on, and a
\* watched LOAD that was refused has reported the read after the trace line.
C37_Witness ==
  /\ vm.debugger.tracing
  /\ 1 \notin vm.debugger.breakpoints
  /\ vm.status = "error" /\ vm.err.kind = "MemoryAccess"
  /\ Len(vm.out) >= 3
  /\ vm.out[Len(vm.out) - 2] = Tag("BREAK", 1)
  /\ vm.out[Len(vm.out)] = Tag("WATCH:read", MMIO_OUT)
  /\ vm.out[Len(vm.out) - 1] = Tag("TRACE", 1)
(***************************************************************************)
(* A DebugVM (src/uor/debug.py) without breakpoints, watchpoints, tracing  *)
(* or step mode next to a VM (src/vm.py) on the same program and with the  *)
(* same JIT.  vm is the DebugVM, ivm the VM.                               *)
(***************************************************************************)
MaxPlainLen == 3

PlainCalls ==
  {WithOperand(opcode.OP_PUSH, 1), Bare(opcode.OP_PRINT), Signed(opcode.OP_JMP, 1),
   Signed(opcode.OP_JMP, -3), Signed(opcode.OP_CALL, 1), Header("block_start", 1)}

\* The JIT unavailable, and the JIT with the blocks of _compile_py.
PlainJits == {JitOff, [available |-> TRUE, threshold |-> 1, native |-> FALSE]}

InitPlain ==
  /\ CodecIdle
  /\ MemIdle
  /\ LibIdle
  /\ \E cs \in CallSeqs(PlainCalls, MaxPlainLen) :
       /\ decode([k \in 1..Len(cs) |-> Encode(cs[k])]).err = "none"
       /\ program = decode([k \in 1..Len(cs) |-> Encode(cs[k])]).result
  /\ jit \in PlainJits
  /\ vm = [NewDebugVM EXCEPT !.status = "running"]
  /\ ivm = Boot
  /\ vh = NoStep
  /\ ih = NoStep

\* One iteration of the loop of DebugVM.execute.
DebugRun ==
  /\ vm.status = "running"
  /\ vm' = Advance(vm, jit, FALSE, "crash")
  /\ UNCHANGED <<codecVars, memVars, program, jit, vh, ivm, ih, libVars>>

\* One iteration of the loop of VM.execute.
PlainRun ==
  /\ vm.status # "running"
  /\ ivm.status = "running"
  /\ ivm' = Advance(ivm, jit, FALSE, "crash")
  /\ UNCHANGED <<codecVars, memVars, program, jit, vm, vh, ih, libVars>>

NextPlain == DebugRun \/ PlainRun

SpecPlain == InitPlain /\ [][NextPlain]_vars

\* What the claim compares: output, stack, memory, call stack, IP and the
\* error with its IP.
Outcome(m) ==
  [out |-> m.out, stack |-> m.stack, cells |-> m.cells, io_out |-> m.io_out,
   allocations |-> m.allocations, call_stack |-> m.call_stack, ip |-> m.ip,
   status |-> m.status, err |-> m.err]

\* C38: a DebugVM with no breakpoints, no watchpoints, tracing off and step
\* mode off ends every program as the VM does: same output, final stack,
\* memory, call stack and IP, and the same error with the same IP,
\* SegmentationFault included.
C38_DebugLikeVM ==
  (Finished(vm) /\ Finished(ivm)) => Outcome(vm) = Outcome(ivm)

\* The two end alike whenever the VM does not end in SegmentationFault.
DebugLikeVMInRange ==
  (Finished(vm) /\ Finished(ivm) /\ ivm.err.kind # "SegmentationFault") =>
    Outcome(vm) = Outcome(ivm)

\* Where the VM raises SegmentationFault the DebugVM ends normally (IP above
\* the program length), goes on at a negative index, or raises IndexError.
DebugNeverFaults == vm.err.kind # "SegmentationFault"
(***************************************************************************)
(* The prime tables (src/primes.py) as the VM reads them: an operand v is  *)
(* encoded as get_prime(v) and read back as _PRIME_IDX[get_prime(v)]       *)
(* (src/vm.py:288-290).                                                    *)
(***************************************************************************)
\* _PRIMES is the list of the first primes in ascending order.
Canonical(t) == \A i \in 1..Len(t.primes) : t.primes[i] = PRIMES[i]

\* _PRIME_IDX[_PRIMES[i]] == i
IndexedInOrder(t) ==
  \A i \in 1..Len(t.primes) :
    t.primes[i] \in DOMAIN t.idx /\ t.idx[t.primes[i]] = i - 1

\* C39: in every state reached by get_prime, factor and optimized_factorize
\* calls, _PRIMES holds no value twice, _PRIME_IDX[_PRIMES[i]] = i for every
\* index i, and _PRIMES[i] is the i-th prime (0 -> 2, 1 -> 3, 2 -> 5, ...).
C39_TablesCanonical ==
  /\ NoDuplicate(pt.primes)
  /\ IndexedInOrder(pt)
  /\ Canonical(pt)

\* The tables are canonical as long as no factorization has been computed.
TablesCanonicalBeforeFactoring ==
  DOMAIN pcall.first = {} =>
    /\ NoDuplicate(pt.primes)
    /\ IndexedInOrder(pt)
    /\ Canonical(pt)
(***************************************************************************)
(* One VM executing one program after another (src/vm.py:160-199).         *)
(* _counter and _compiled are created by __init__ (src/vm.py:63-64) and    *)
(* keyed by the instruction pointer alone.  vh keeps, for every entry of   *)
(* _compiled, the instruction its block was compiled from, and for every   *)
(* instruction pointer the hits counted since execute was last called      *)
(* with another program; switched says that this has happened.             *)
(***************************************************************************)
MaxReuseLen == 2
MaxReuseRuns == 3

ReuseCalls ==
  {WithOperand(opcode.OP_PUSH, 1), WithOperand(opcode.OP_PUSH, 2), Bare(opcode.OP_PRINT)}

ReusePrograms ==
  {decode([k \in 1..Len(cs) |-> Encode(cs[k])]).result :
     cs \in CallSeqs(ReuseCalls, MaxReuseLen)}

NoBlockRun == [kind |-> "none", ip |-> 0, block |-> << >>, instr |-> << >>, count |-> 0]

NewLedger ==
  [blocks |-> << >>, hits |-> << >>, runs |-> 1, switched |-> FALSE,
   last |-> NoBlockRun]

InitReuse ==
  /\ CodecIdle
  /\ MemIdle
  /\ LibIdle
  /\ program \in ReusePrograms
  /\ jit \in JitConfigs
  /\ vm = Boot
  /\ vh = NewLedger
  /\ ivm = NewVM
  /\ ih = NoStep

\* The dispatch at m.ip finds an entry in _compiled.
FindsBlock(m, j) ==
  /\ j.available
  /\ m.ip >= 0 /\ m.ip < Len(program)
  /\ m.ip \in m.compiled

\* The program with the instruction at m.ip replaced by the one the block
\* found at m.ip was compiled from: an iteration that runs the block runs
\* that instruction.
AsCompiled(m, h, j) ==
  IF FindsBlock(m, j) THEN [program EXCEPT ![m.ip + 1] = h.blocks[m.ip]] ELSE program

\* One iteration of the loop of execute.
Iterated(m, h, j, ub) ==
  IF AtCap(program, m) THEN Capped(m) ELSE Step(AsCompiled(m, h, j), m, j, FALSE, ub)

\* The ledger after the iteration that took m to m2.
Noted(h, m, m2, j) ==
  IF AtCap(program, m) \/ m.ip < 0 \/ m.ip >= Len(program) THEN h
  ELSE IF FindsBlock(m, j)
  THEN [h EXCEPT !.last = [kind |-> "block", ip |-> m.ip, block |-> h.blocks[m.ip],
                            instr |-> PyIndex(program, m.ip), count |-> 0]]
  ELSE [h EXCEPT !.hits = [i \in DOMAIN @ \cup {m.ip} |->
                             IF i = m.ip THEN (IF i \in DOMAIN @ THEN @[i] ELSE 0) + 1
                             ELSE @[i]],
                 !.blocks = IF m.ip \in m2.compiled
                            THEN [i \in DOMAIN @ \cup {m.ip} |->
                                    IF i = m.ip THEN PyIndex(program, m.ip) ELSE @[i]]
                            ELSE @,
                 !.last = [kind |-> "hit", ip |-> m.ip, block |-> << >>,
                           instr |-> PyIndex(program, m.ip),
                           count |-> IF m.ip \in DOMAIN m2.counter THEN m2.counter[m.ip]
                                     ELSE 0]]

ReuseStep ==
  /\ vm.status = "running"
  /\ \E ub \in UBOutcomes :
       /\ vm' = Iterated(vm, vh, jit, ub)
       /\ vh' = Noted(vh, vm, Iterated(vm, vh, jit, ub), jit)
  /\ UNCHANGED <<codecVars, memVars, program, jit, ivm, ih, libVars>>

\* execute(p) is called on the machine whose run has ended normally.
ExecuteNext ==
  /\ vm.status = "halted"
  /\ vh.runs < MaxReuseRuns
  /\ \E p \in ReusePrograms :
       /\ program' = p
       /\ vh' = [vh EXCEPT !.runs = @ + 1,
                           !.hits = IF p = program THEN @ ELSE << >>,
                           !.switched = @ \/ p # program,
                           !.last = NoBlockRun]
  /\ vm' = Reexecuted(vm)
  /\ UNCHANGED <<codecVars, memVars, jit, ivm, ih, libVars>>

NextReuse == ReuseStep \/ ExecuteNext

SpecReuse == InitReuse /\ [][NextReuse]_vars

\* The block the last iteration ran was compiled from the instruction the
\* program holds at that instruction pointer.
BlockOfProgram == vh.last.kind = "block" => vh.last.block = vh.last.instr

\* The counter the last iteration raised holds the hits of this program.
CounterOfProgram ==
  vh.last.kind = "hit" => vh.last.count = vh.hits[vh.last.ip]

\* C40: a compiled block run at IP i was compiled from the instruction at
\* index i of the program being executed; across successive calls of
\* execute on one VM with different programs, the hit counters and the
\* blocks registered for an earlier program are never applied to an
\* instruction of a later program.
C40_BlocksOfProgram == BlockOfProgram /\ CounterOfProgram

\* As long as execute is only called with the program it was first called
\* with, blocks and counters are those of the program.
BlocksOfOneProgram ==
  ~vh.switched => (BlockOfProgram /\ CounterOfProgram)

\* The entries of _compiled and _counter outlive the call of execute.
EntriesKept ==
  [][(vm.status = "halted" /\ vm'.status = "running") =>
       (vm'.compiled = vm.compiled /\ vm'.counter = vm.counter)]_vars
====
